---- MODULE Spec2Model ----
(***************************************************************************)
(* A model of the rate limiter (src/utils/rateLimit.ts) and of the retry   *)
(* executor (src/utils/retry.ts) of tgmr, a Telegram media relay bot.      *)
(*                                                                         *)
(* Time is Date.now() in milliseconds.  The clock advances by one          *)
(* millisecond or by half a window, so that every comparison of the code   *)
(* is met on both sides of its boundary and exactly on it.                 *)
(***************************************************************************)
EXTENDS Integers, Sequences, FiniteSets, TLC

\* ------------------------------------------------------------------ bounds
NumUsers == 2
MaxRateLimit == 2
MaxCooldownSteps == 2
MaxCoarse == 4
MaxFine == 1
MaxCount == 3
Epoch == 1000
MaxAttempts == 4
MaxDelaySteps == 4
MaxFactor == 3
MaxPrefix == 2
MaxLines == 2
MaxTicks == 1
MaxFiles == 2
MaxEnv == 2
MaxInflight == 2
IsoWindows == 1
NumRequests == 2         \* messages handled at the same time

\* --------------------------------------------------------------- constants
\* RateLimiter.resetInterval, one minute in milliseconds
resetInterval == 60 * 1000

\* the coarse step of the clock: half a window
HalfWindow == resetInterval \div 2

Users == 1..NumUsers

\* the values COOLDOWN (seconds) is configured to: 0 s, 30 s, 60 s, ...
CooldownChoices == { (k * HalfWindow) \div 1000 : k \in 0..MaxCooldownSteps }

VARIABLES
    env,        \* the configuration: RATE_LIMIT, COOLDOWN (seconds)
    now,        \* Date.now()
    limits,     \* RateLimiter.limits: Map<userId, RateLimitEntry>
    last,       \* the last call made on the rate limiter, with its result
    track       \* per identity: where it stands in the "L+1 requests" scenario

rlVars == <<env, now, limits, last, track>>

VARIABLES
    options,      \* the RetryOptions the caller passes to withRetry
    rpc,          \* where the call of withRetry stands
    attempt,      \* the loop variable of withRetry
    delay,        \* the local variable delay of withRetry
    lastError,    \* the local variable lastError of withRetry
    result,       \* how the promise of withRetry settled
    invocations,  \* the number of times operation() has been called
    outcomes,     \* how each call of operation() settled, in order
    waited        \* the delays of the timers that have fired, in order

retryVars ==
    <<options, rpc, attempt, delay, lastError, result, invocations, outcomes, waited>>

VARIABLES
    supported,  \* env.SUPPORTED_DOMAINS
    filtered    \* the word of a message handleMessage has filtered, with the
                \* results of isValidUrl and isSupportedPlatform

urlVars == <<supported, filtered>>

VARIABLES
    dl          \* a call of MediaDownloader.getMediaInfo or download: where it
                \* stands and how it settled


\* the state of the parts of the bot other than the limiter and withRetry
VARIABLES
    hm          \* a message in handleMessage: where the handler stands, the
                \* interval of its ChatActionManager, the replies attempted

appVars == <<urlVars, dl, hm>>

VARIABLES
    cookie      \* a call of getCookieFileForDomain: the environment, the
                \* domain and what was returned

VARIABLES
    inflight    \* per identity, the requests for which canMakeRequest has
                \* returned true and recordRequest has not been called yet

VARIABLES
    lockout      \* what is known of the last breach of the limit: it reads the
                \* calls and never influences them

VARIABLES
    route       \* the word of a message last filtered and, when it passed
                \* the filter, the extractor getMediaInfo chose for it

VARIABLES
    share       \* the requests handled at the same time (req) and the files
                \* of the temporary directory (disk)

extVars == <<cookie, inflight, lockout, route, share>>

\* ------------------------------------------------------------ rate limiter
Min(x, y) == IF x <= y THEN x ELSE y

\* getOrCreateEntry rotating already when exactly resetInterval has passed
getOrCreateEntry_AtLeast(lim, userId, t) ==
    IF userId \notin DOMAIN lim
    THEN (userId :> [count |-> 0, lastReset |-> t, cooldownUntil |-> 0]) @@ lim
    ELSE IF t - lim[userId].lastReset >= resetInterval
         THEN [lim EXCEPT ![userId].count = 0, ![userId].lastReset = t]
         ELSE lim

\* getOrCreateEntry without the rotation of a stale window
getOrCreateEntry_NoRotate(lim, userId, t) ==
    IF userId \notin DOMAIN lim
    THEN (userId :> [count |-> 0, lastReset |-> t, cooldownUntil |-> 0]) @@ lim
    ELSE lim

\* RateLimiter.getOrCreateEntry: the Map after the call; the entry returned
\* is the Map's entry of userId.  A new entry is returned as created; an
\* existing one is rotated when MORE than resetInterval has passed.
getOrCreateEntry(lim, userId, t) ==
    IF userId \notin DOMAIN lim
    THEN (userId :> [count |-> 0, lastReset |-> t, cooldownUntil |-> 0]) @@ lim
    ELSE IF t - lim[userId].lastReset > resetInterval
         THEN [lim EXCEPT ![userId].count = 0, ![userId].lastReset = t]
         ELSE lim

\* canMakeRequest allowing one request too many (count > RATE_LIMIT)
canMakeRequest_OffByOne(lim, userId, t) ==
    LET l1 == getOrCreateEntry(lim, userId, t)
        entry == l1[userId]
    IN  IF entry.cooldownUntil > t
        THEN [limits |-> l1, ret |-> FALSE]
        ELSE IF entry.count > env.RATE_LIMIT
             THEN [limits |-> [l1 EXCEPT ![userId].cooldownUntil = t + env.COOLDOWN * 1000],
                   ret |-> FALSE]
             ELSE [limits |-> l1, ret |-> TRUE]

\* canMakeRequest without the cooldown check
canMakeRequest_NoCooldownCheck(lim, userId, t) ==
    LET l1 == getOrCreateEntry(lim, userId, t)
        entry == l1[userId]
    IN  IF entry.count >= env.RATE_LIMIT
        THEN [limits |-> [l1 EXCEPT ![userId].cooldownUntil = t + env.COOLDOWN * 1000],
              ret |-> FALSE]
        ELSE [limits |-> l1, ret |-> TRUE]

\* canMakeRequest checking the limit before the cooldown
canMakeRequest_LimitFirst(lim, userId, t) ==
    LET l1 == getOrCreateEntry(lim, userId, t)
        entry == l1[userId]
    IN  IF entry.count >= env.RATE_LIMIT
        THEN [limits |-> [l1 EXCEPT ![userId].cooldownUntil = t + env.COOLDOWN * 1000],
              ret |-> FALSE]
        ELSE IF entry.cooldownUntil > t
             THEN [limits |-> l1, ret |-> FALSE]
             ELSE [limits |-> l1, ret |-> TRUE]

\* canMakeRequest rejecting a request over the limit without a cooldown
canMakeRequest_NoArm(lim, userId, t) ==
    LET l1 == getOrCreateEntry(lim, userId, t)
        entry == l1[userId]
    IN  IF entry.cooldownUntil > t
        THEN [limits |-> l1, ret |-> FALSE]
        ELSE IF entry.count >= env.RATE_LIMIT
             THEN [limits |-> l1, ret |-> FALSE]
             ELSE [limits |-> l1, ret |-> TRUE]

\* canMakeRequest arming the cooldown anew at every rejected call
canMakeRequest_RearmAlways(lim, userId, t) ==
    LET l1 == getOrCreateEntry(lim, userId, t)
        entry == l1[userId]
    IN  IF entry.cooldownUntil > t \/ entry.count >= env.RATE_LIMIT
        THEN [limits |-> [l1 EXCEPT ![userId].cooldownUntil = t + env.COOLDOWN * 1000],
              ret |-> FALSE]
        ELSE [limits |-> l1, ret |-> TRUE]

\* RateLimiter.canMakeRequest at time t: the Map after the call and the
\* boolean returned.
canMakeRequest(lim, userId, t) ==
    LET l1 == getOrCreateEntry(lim, userId, t)
        entry == l1[userId]
    IN  IF entry.cooldownUntil > t
        THEN [limits |-> l1, ret |-> FALSE]
        ELSE IF entry.count >= env.RATE_LIMIT
             THEN [limits |-> [l1 EXCEPT ![userId].cooldownUntil = t + env.COOLDOWN * 1000],
                   ret |-> FALSE]
             ELSE [limits |-> l1, ret |-> TRUE]

\* recordRequest refusing to count beyond the limit
recordRequest_Checked(lim, userId, t) ==
    LET l1 == getOrCreateEntry(lim, userId, t)
    IN  IF l1[userId].count >= env.RATE_LIMIT
        THEN l1
        ELSE [l1 EXCEPT ![userId].count = l1[userId].count + 1]

\* recordRequest counting the request against every identity of the Map
recordRequest_AllEntries(lim, userId, t) ==
    LET l1 == getOrCreateEntry(lim, userId, t)
    IN  [u \in DOMAIN l1 |-> [l1[u] EXCEPT !.count = Min(l1[u].count + 1, MaxCount)]]

\* RateLimiter.recordRequest at time t: the Map after the call.
recordRequest(lim, userId, t) ==
    LET l1 == getOrCreateEntry(lim, userId, t)
    IN  [l1 EXCEPT ![userId].count = l1[userId].count + 1]

\* The Map restricted to one identity: the entry a call found (or none).
Snapshot(lim, userId) == [u \in (DOMAIN lim) \cap {userId} |-> lim[u]]

\* ------------------------------------------------- the observer of calls
\* track[u] follows the calls made for identity u; it reads the results of
\* the calls and never influences them.
\*   ok        every request so far called canMakeRequest once and then
\*             recordRequest if and only if it returned true
\*   pending   canMakeRequest returned true, recordRequest has not followed
\*   phase     "fresh":    no call yet
\*             "counting": n requests so far, all within resetInterval of the
\*                         first one (made at firstAt), which created the entry
\*             "breached": request number RATE_LIMIT+1 of that scenario was made
\*                         at breachAt; n = RATE_LIMIT+2 marks the later ones
\*             "void":     the calls made are not that scenario
\*   a         the calls of the current window that returned true
\*   lock      cooldownUntil as the last breaching call left it (0: no breach);
\*             a breaching call is one made after RATE_LIMIT allowed requests
\*             of the same window
\*   poll      since the last breaching call the identity has called
\*             canMakeRequest at every instant of the clock and nothing else
\*   polled    canMakeRequest was called at the current instant
Fresh ==
    [ok |-> TRUE, pending |-> FALSE, phase |-> "fresh", n |-> 0, firstAt |-> 0,
     breachAt |-> 0, a |-> 0, lock |-> 0, poll |-> FALSE, polled |-> FALSE]

TrackCheck(tr, lim, post, userId, t, ret) ==
    LET created == userId \notin DOMAIN lim
        rotated == ~created /\ post[userId].lastReset # lim[userId].lastReset
        ok1 == tr.ok /\ ~tr.pending
        a0 == IF created \/ rotated THEN 0 ELSE tr.a
        breach == ok1 /\ a0 >= env.RATE_LIMIT
        inScenario == ok1 /\ t - tr.firstAt <= resetInterval
        ph == CASE tr.phase = "fresh" -> IF created THEN "counting" ELSE "void"
                [] tr.phase = "counting" ->
                      IF ~inScenario THEN "void"
                      ELSE IF tr.n = env.RATE_LIMIT THEN "breached" ELSE "counting"
                [] tr.phase = "breached" -> IF ok1 THEN "breached" ELSE "void"
                [] OTHER -> "void"
    IN  [ok |-> ok1,
         pending |-> ret,
         phase |-> ph,
         n |-> IF ph = "void" THEN 0 ELSE Min(tr.n + 1, env.RATE_LIMIT + 2),
         firstAt |-> IF ph = "void" THEN 0 ELSE IF tr.phase = "fresh" THEN t ELSE tr.firstAt,
         breachAt |-> IF ph # "breached" THEN 0
                      ELSE IF tr.phase = "counting" THEN t ELSE tr.breachAt,
         a |-> Min(a0 + (IF ret THEN 1 ELSE 0), env.RATE_LIMIT + 1),
         lock |-> IF breach THEN post[userId].cooldownUntil ELSE tr.lock,
         poll |-> breach \/ tr.poll,
         polled |-> TRUE]

TrackRecord(tr, lim, post, userId, t) ==
    LET created == userId \notin DOMAIN lim
        rotated == ~created /\ post[userId].lastReset # lim[userId].lastReset
        ok1 == tr.ok /\ tr.pending
        keep == ok1 /\ tr.phase = "counting" /\ t - tr.firstAt <= resetInterval
    IN  [ok |-> ok1,
         pending |-> FALSE,
         phase |-> IF keep THEN "counting" ELSE "void",
         n |-> IF keep THEN tr.n ELSE 0,
         firstAt |-> IF keep THEN tr.firstAt ELSE 0,
         breachAt |-> 0,
         a |-> IF created \/ rotated THEN 0 ELSE tr.a,
         lock |-> tr.lock,
         poll |-> FALSE,
         polled |-> tr.polled]

TrackTick(tr) == [tr EXCEPT !.poll = tr.poll /\ tr.polled, !.polled = FALSE]

\* ----------------------------------------------------------------- actions
\* lastError before any failure; the promise of withRetry before it settles
Undefined == [message |-> << >>, text |-> << >>]
Pending == [kind |-> "pending", value |-> "", error |-> Undefined]

\* no call of the downloader is under way
DlIdle ==
    [call |-> "none", site |-> "none", pc |-> "idle", attempt |-> 0,
     filePaths |-> << >>, failed |-> {}, result |-> [kind |-> "pending"]]

\* no message is being handled
HmIdle ==
    [pc |-> "idle", from |-> 0, urls |-> 0, called |-> FALSE,
     interval |-> FALSE, timers |-> 0,
     armed |-> 0, ticks |-> 0, acquired |-> {}, replies |-> << >>,
     files |-> << >>, sizes |-> << >>, thumbs |-> {}, sent |-> << >>,
     deleted |-> {}, error |-> "none",
     stopped |-> FALSE, chain |-> "none", chainAttempt |-> 0, late |-> 0]

\* getCookieFileForDomain has not been called
CookieIdle ==
    [called |-> FALSE, env |-> << >>, fallback |-> "", domain |-> << >>,
     file |-> [kind |-> "null"]]

\* no breach so far.  active: a call found no cooldown active and count >=
\* RATE_LIMIT, and no canMakeRequest has returned true since; windowStart:
\* lastReset of the entry at that call; recorded: recordRequest was called
\* since; polls: the canMakeRequest calls since (up to 2); was: active,
\* windowStart, recorded and polls as the latest call found them
NoBreach ==
    [active |-> FALSE, windowStart |-> 0, recorded |-> FALSE, polls |-> 0,
     was |-> [active |-> FALSE, windowStart |-> 0, recorded |-> FALSE, polls |-> 0]]

\* no word filtered yet
NoRoute == [called |-> FALSE, hostname |-> << >>, tool |-> "none"]

\* a request slot with no message in it.  existed: the output file was there
\* when the download started; files: result.filePaths; shared: another
\* request sent or deleted one of these files while this one was in flight
NoRequest ==
    [pc |-> "idle", url |-> "", existed |-> FALSE, files |-> {}, sent |-> {},
     deleted |-> {}, shared |-> FALSE]

\* no message being handled and an empty temporary directory
NoShare == [req |-> [r \in 1..NumRequests |-> NoRequest], disk |-> {}]

ExtIdle ==
    /\ cookie = CookieIdle
    /\ inflight = [u \in Users |-> 0]
    /\ lockout = NoBreach
    /\ route = NoRoute
    /\ share = NoShare

\* the default SUPPORTED_DOMAINS; no message has been handled
AppIdle ==
    /\ supported = <<<<"y", "o", "u", "t", "u", "b", "e", ".", "c", "o", "m">>, <<"y", "o", "u", "t", "u", ".", "b", "e">>>>
    /\ filtered = [word |-> << >>, valid |-> FALSE, supported |-> FALSE]
    /\ dl = DlIdle
    /\ hm = HmIdle
    /\ ExtIdle

\* withRetry has not been called
RetryIdle ==
    /\ options = << >>
    /\ rpc = "start"
    /\ attempt = 0
    /\ delay = 0
    /\ lastError = Undefined
    /\ result = Pending
    /\ invocations = 0
    /\ outcomes = << >>
    /\ waited = << >>

NoCall == [op |-> "none", userId |-> 0, ret |-> FALSE, pre |-> << >>]

InitRL ==
    /\ RetryIdle
    /\ AppIdle
    /\ env \in [RATE_LIMIT : 1..MaxRateLimit, COOLDOWN : CooldownChoices]
    /\ now = Epoch
    /\ limits = << >>
    /\ last = NoCall
    /\ track = [u \in Users |-> Fresh]

\* a request handler calls rateLimiter.canMakeRequest(userId)
CanMakeRequestCall(userId) ==
    LET r == canMakeRequest(limits, userId, now)
    IN  /\ limits' = r.limits
        /\ last' = [op |-> "canMakeRequest", userId |-> userId, ret |-> r.ret,
                    pre |-> Snapshot(limits, userId)]
        /\ track' = [track EXCEPT ![userId] = TrackCheck(@, limits, r.limits, userId, now, r.ret)]
        /\ UNCHANGED <<env, now, retryVars, appVars, extVars>>

\* a request handler calls rateLimiter.recordRequest(userId)
RecordRequestCall(userId) ==
    /\ userId \in DOMAIN limits => limits[userId].count < MaxCount
    /\ limits' = recordRequest(limits, userId, now)
    /\ last' = [op |-> "recordRequest", userId |-> userId, ret |-> FALSE,
                pre |-> Snapshot(limits, userId)]
    /\ track' = [track EXCEPT ![userId] = TrackRecord(@, limits, limits', userId, now)]
    /\ UNCHANGED <<env, now, retryVars, appVars, extVars>>

\* the clock advances by d milliseconds
ClockAdvance(d) ==
    /\ (now + d - Epoch) \div HalfWindow <= MaxCoarse
    /\ (now + d - Epoch) % HalfWindow <= MaxFine
    /\ now' = now + d
    /\ last' = NoCall
    /\ track' = [u \in Users |-> TrackTick(track[u])]
    /\ UNCHANGED <<env, limits, retryVars, appVars, extVars>>

\* only the identity userId has sent requests so far
Solo(userId) == DOMAIN limits \subseteq {userId}

NextRL ==
    \/ \E u \in Users : Solo(u) /\ CanMakeRequestCall(u)
    \/ \E u \in Users : Solo(u) /\ RecordRequestCall(u)
    \/ \E d \in {1, HalfWindow} : ClockAdvance(d)

\* The same two calls with the scenario observer left out, for the claims
\* about several identities sharing the Map.
IsolatedCheck(userId) ==
    LET r == canMakeRequest(limits, userId, now)
    IN  /\ limits' = r.limits
        /\ last' = [op |-> "canMakeRequest", userId |-> userId, ret |-> r.ret,
                    pre |-> Snapshot(limits, userId)]
        /\ UNCHANGED <<env, now, track, retryVars, appVars, extVars>>

IsolatedRecord(userId) ==
    /\ userId \in DOMAIN limits => limits[userId].count < MaxCount
    /\ limits' = recordRequest(limits, userId, now)
    /\ last' = [op |-> "recordRequest", userId |-> userId, ret |-> FALSE,
                pre |-> Snapshot(limits, userId)]
    /\ UNCHANGED <<env, now, track, retryVars, appVars, extVars>>

\* the clock of the interleaved requests: it moves on by d, just over a
\* window (every window is stale and every cooldown over), IsoWindows times
IsolatedClock(d) ==
    /\ (now + d - Epoch) \div d <= IsoWindows
    /\ ClockAdvance(d)

\* identities are interchangeable: they are numbered in the order of their
\* first request
InOrder(userId) == \A v \in 1..(userId - 1) : v \in DOMAIN limits

\* the limiter of a bot configured with the default COOLDOWN
InitIso ==
    /\ RetryIdle
    /\ AppIdle
    /\ env \in [RATE_LIMIT : 1..MaxRateLimit, COOLDOWN : {resetInterval \div 1000}]
    /\ now = Epoch
    /\ limits = << >>
    /\ last = NoCall
    /\ track = [u \in Users |-> Fresh]

\* requests of several identities interleaved
NextIso ==
    \/ \E u \in Users : InOrder(u) /\ IsolatedCheck(u)
    \/ \E u \in Users : InOrder(u) /\ IsolatedRecord(u)
    \/ IsolatedClock(resetInterval + 1)

\* Requests of one identity in flight at the same time: each calls
\* canMakeRequest and, when it returned true, recordRequest in a later turn
\* of the event loop.
ConcurrentCheck(userId) ==
    LET r == canMakeRequest(limits, userId, now)
    IN  /\ inflight[userId] < MaxInflight
        /\ limits' = r.limits
        /\ last' = [op |-> "canMakeRequest", userId |-> userId, ret |-> r.ret,
                    pre |-> Snapshot(limits, userId)]
        /\ inflight' = [inflight EXCEPT ![userId] = IF r.ret THEN @ + 1 ELSE @]
        /\ UNCHANGED <<env, now, track, retryVars, appVars, cookie, lockout, route, share>>

ConcurrentRecord(userId) ==
    /\ inflight[userId] > 0
    /\ limits' = recordRequest(limits, userId, now)
    /\ last' = [op |-> "recordRequest", userId |-> userId, ret |-> FALSE,
                pre |-> Snapshot(limits, userId)]
    /\ inflight' = [inflight EXCEPT ![userId] = @ - 1]
    /\ UNCHANGED <<env, now, track, retryVars, appVars, cookie, lockout, route, share>>

InitConcurrent ==
    /\ RetryIdle
    /\ AppIdle
    /\ env \in [RATE_LIMIT : 1..MaxRateLimit, COOLDOWN : CooldownChoices]
    /\ now = Epoch
    /\ limits = << >>
    /\ last = NoCall
    /\ track = [u \in Users |-> Fresh]

NextConcurrent ==
    \/ \E u \in Users : InOrder(u) /\ ConcurrentCheck(u)
    \/ \E u \in Users : InOrder(u) /\ ConcurrentRecord(u)
    \/ IsolatedClock(resetInterval + 1)

\* The requests of one identity, some of them in flight, with the clock
\* moving in steps of 1 ms and of half a window, and the breach followed.
BreachSeen(b) == [active |-> b.active, windowStart |-> b.windowStart,
                  recorded |-> b.recorded, polls |-> b.polls]

LockoutCheck(userId) ==
    LET r == canMakeRequest(limits, userId, now)
        entry == getOrCreateEntry(limits, userId, now)[userId]
        breaching == entry.cooldownUntil <= now /\ entry.count >= env.RATE_LIMIT
    IN  /\ inflight[userId] < MaxInflight
        /\ limits' = r.limits
        /\ last' = [op |-> "canMakeRequest", userId |-> userId, ret |-> r.ret,
                    pre |-> Snapshot(limits, userId)]
        /\ inflight' = [inflight EXCEPT ![userId] = IF r.ret THEN @ + 1 ELSE @]
        /\ lockout' = IF r.ret
                     THEN [NoBreach EXCEPT !.was = BreachSeen(lockout)]
                     ELSE IF breaching /\ ~lockout.active
                          THEN [active |-> TRUE, windowStart |-> entry.lastReset,
                                recorded |-> FALSE, polls |-> 0,
                                was |-> BreachSeen(lockout)]
                          ELSE [lockout EXCEPT !.polls = IF lockout.active THEN Min(@ + 1, 2) ELSE @,
                                              !.was = BreachSeen(lockout)]
        /\ UNCHANGED <<env, now, track, retryVars, appVars, cookie, route, share>>

LockoutRecord(userId) ==
    /\ inflight[userId] > 0
    /\ limits' = recordRequest(limits, userId, now)
    /\ last' = [op |-> "recordRequest", userId |-> userId, ret |-> FALSE,
                pre |-> Snapshot(limits, userId)]
    /\ inflight' = [inflight EXCEPT ![userId] = @ - 1]
    /\ lockout' = [lockout EXCEPT !.recorded = lockout.active, !.was = BreachSeen(lockout)]
    /\ UNCHANGED <<env, now, track, retryVars, appVars, cookie, route, share>>

InitLockout ==
    /\ RetryIdle
    /\ AppIdle
    /\ env \in [RATE_LIMIT : 1..MaxRateLimit, COOLDOWN : CooldownChoices]
    /\ now = Epoch
    /\ limits = << >>
    /\ last = NoCall
    /\ track = [u \in Users |-> Fresh]

NextLockout ==
    \/ LockoutCheck(1)
    \/ LockoutRecord(1)
    \/ \E d \in {1, HalfWindow} : ClockAdvance(d)

\* ---------------------------------------------------------- retry executor
\* Strings are sequences of characters, so that String.prototype.includes is
\* the search for a contiguous subsequence.
Includes(str, sub) ==
    \E i \in 0..(Len(str) - Len(sub)) : SubSeq(str, i + 1, i + Len(sub)) = sub

\* defaultOptions.retryableErrors
DefaultRetryableErrors ==
    << [kind |-> "string", text |-> <<"N", "e", "t", "w", "o", "r", "k", " ", "r", "e", "q", "u", "e", "s", "t">>],
       [kind |-> "string", text |-> <<"E", "T", "I", "M", "E", "D", "O", "U", "T">>],
       [kind |-> "string", text |-> <<"E", "C", "O", "N", "N", "R", "E", "S", "E", "T">>],
       [kind |-> "string", text |-> <<"E", "C", "O", "N", "N", "R", "E", "F", "U", "S", "E", "D">>],
       [kind |-> "string", text |-> <<"s", "o", "c", "k", "e", "t", " ", "h", "a", "n", "g", " ", "u", "p">>],
       [kind |-> "string", text |-> <<"g", "e", "t", "a", "d", "d", "r", "i", "n", "f", "o">>] >>

defaultOptions ==
    [maxAttempts |-> 3, initialDelay |-> 1000, maxDelay |-> 10000,
     backoffFactor |-> 2, retryableErrors |-> DefaultRetryableErrors]

\* { ...defaultOptions, ...options }: the keys the caller passes win
MergeOptions(o) == o @@ defaultOptions

opts == MergeOptions(options)

\* a string entry of retryableErrors compared with the whole message
PatternMatches_Exact(pattern, errorMessage) ==
    IF pattern.kind = "string"
    THEN errorMessage = pattern.text
    ELSE ~Includes(errorMessage, pattern.text) /\ ~Includes(errorMessage, <<"\n">>)

\* a pattern of retryableErrors against the error message: a string is
\* searched for; a RegExp /^(?!.*X).*$/ (the only form the program uses)
\* matches the one-line messages that do not contain X
PatternMatches(pattern, errorMessage) ==
    IF pattern.kind = "string"
    THEN Includes(errorMessage, pattern.text)
    ELSE ~Includes(errorMessage, pattern.text) /\ ~Includes(errorMessage, <<"\n">>)

\* lastError.message || String(error)
ErrorMessage(error) == IF error.message # << >> THEN error.message ELSE error.text

\* opts.retryableErrors.some(...)
isRetryable(o, error) ==
    \E i \in 1..Len(o.retryableErrors) :
        PatternMatches(o.retryableErrors[i], ErrorMessage(error))

\* giving up one attempt early
GivesUp_OneEarly(o, retryable, att) == ~retryable \/ att >= o.maxAttempts - 1

\* giving up only when the attempts are used up
GivesUp_OnlyWhenExhausted(o, retryable, att) == att = o.maxAttempts

\* if (!isRetryable || attempt === opts.maxAttempts) throw lastError
GivesUp(o, retryable, att) == ~retryable \/ att = o.maxAttempts

\* keeping the first error caught
Caught_KeepFirst(previous, error) ==
    IF previous = [message |-> << >>, text |-> << >>] THEN error ELSE previous

\* lastError = error as Error
Caught(previous, error) == error

\* the delay growing without the cap
NextDelay_NoCap(o, d) == d * o.backoffFactor

\* delay = Math.min(delay * opts.backoffFactor, opts.maxDelay)
NextDelay(o, d) == Min(d * o.backoffFactor, o.maxDelay)

\* the errors operation() rejects with: message is error.message (empty when
\* there is none), text is String(error)
ErrTimedOut == [message |-> <<"E", "T", "I", "M", "E", "D", "O", "U", "T">>, text |-> <<"E", "r", "r", "o", "r", ":", " ", "E", "T", "I", "M", "E", "D", "O", "U", "T">>]
ErrHangUp == [message |-> <<"r", "e", "a", "d", ":", " ", "s", "o", "c", "k", "e", "t", " ", "h", "a", "n", "g", " ", "u", "p">>, text |-> <<"E", "r", "r", "o", "r", ":", " ", "r", "e", "a", "d", ":", " ", "s", "o", "c", "k", "e", "t", " ", "h", "a", "n", "g", " ", "u", "p">>]
ErrThrownString == [message |-> << >>, text |-> <<"E", "C", "O", "N", "N", "R", "E", "S", "E", "T">>]
ErrTooLarge == [message |-> <<"4", "1", "3", ":", " ", "R", "e", "q", "u", "e", "s", "t", " ", "E", "n", "t", "i", "t", "y", " ", "T", "o", "o", " ", "L", "a", "r", "g", "e">>, text |-> <<"E", "r", "r", "o", "r", ":", " ", "4", "1", "3", ":", " ", "R", "e", "q", "u", "e", "s", "t", " ", "E", "n", "t", "i", "t", "y", " ", "T", "o", "o", " ", "L", "a", "r", "g", "e">>]
ErrNoMessage == [message |-> << >>, text |-> <<"E", "r", "r", "o", "r">>]
ErrBadRequest == [message |-> <<"4", "0", "0", ":", " ", "B", "a", "d", " ", "R", "e", "q", "u", "e", "s", "t">>, text |-> <<"E", "r", "r", "o", "r", ":", " ", "4", "0", "0", ":", " ", "B", "a", "d", " ", "R", "e", "q", "u", "e", "s", "t">>]
Errors == {ErrTimedOut, ErrHangUp, ErrThrownString, ErrTooLarge, ErrNoMessage, ErrBadRequest}
Values == {"v1", "v2"}

Returned(v) == [kind |-> "return", value |-> v, error |-> Undefined]
Thrown(e) == [kind |-> "throw", value |-> "", error |-> e]

\* the delays a caller configures: multiples of the smallest one in the program
SmallestDelay == 500
Delays == { SmallestDelay * i : i \in 1..MaxDelaySteps }

\* the options of the media-send step of handleMessage: the default strings
\* and the RegExp /^(?!.*413: Request Entity Too Large).*$/
SendOptions ==
    [maxAttempts |-> 4, initialDelay |-> 2000, maxDelay |-> 10000,
     retryableErrors |->
         Append(DefaultRetryableErrors,
                [kind |-> "regexp", text |-> <<"4", "1", "3", ":", " ", "R", "e", "q", "u", "e", "s", "t", " ", "E", "n", "t", "i", "t", "y", " ", "T", "o", "o", " ", "L", "a", "r", "g", "e">>])]

\* the options callers pass: nothing, or attempt count and delays (as most
\* call sites of the program do), or those and the factor, or those of the
\* media-send step
OptionChoices ==
    { << >>, SendOptions }
    \cup { o \in [maxAttempts : 1..MaxAttempts, initialDelay : Delays, maxDelay : Delays] :
             o.initialDelay <= o.maxDelay }
    \cup { o \in [maxAttempts : {MaxAttempts}, initialDelay : Delays, maxDelay : Delays,
                  backoffFactor : 3..MaxFactor] :
             o.initialDelay <= o.maxDelay }

\* no call has been made on the rate limiter
LimiterIdle ==
    /\ env = [RATE_LIMIT |-> 1, COOLDOWN |-> 0]
    /\ now = Epoch
    /\ limits = << >>
    /\ last = NoCall
    /\ track = [u \in Users |-> Fresh]

InitRetry ==
    /\ LimiterIdle
    /\ AppIdle
    /\ options \in OptionChoices
    /\ rpc = "start"
    /\ attempt = 0
    /\ delay = 0
    /\ lastError = Undefined
    /\ result = Pending
    /\ invocations = 0
    /\ outcomes = << >>
    /\ waited = << >>

\* the head of the for loop with attempt = att: the body calls operation(),
\* or the loop is left and lastError is thrown (line 61)
LoopHead(att) ==
    /\ attempt' = att
    /\ IF att <= opts.maxAttempts
       THEN /\ invocations' = invocations + 1
            /\ rpc' = "operation"
            /\ result' = result
       ELSE /\ invocations' = invocations
            /\ rpc' = "thrown"
            /\ result' = Thrown(lastError)

\* withRetry is called: opts, delay = opts.initialDelay, first iteration
WithRetryCall ==
    /\ rpc = "start"
    /\ delay' = opts.initialDelay
    /\ LoopHead(1)
    /\ UNCHANGED <<options, lastError, outcomes, waited, rlVars, appVars, extVars>>

\* operation() resolves with v: return await operation()
OperationResolves(v) ==
    /\ rpc = "operation"
    /\ outcomes' = Append(outcomes, Returned(v))
    /\ result' = Returned(v)
    /\ rpc' = "returned"
    /\ UNCHANGED <<options, attempt, delay, lastError, invocations, waited, rlVars, appVars, extVars>>

\* operation() rejects with e: the catch block, up to the throw or the timer
OperationRejects(e) ==
    /\ rpc = "operation"
    /\ outcomes' = Append(outcomes, Thrown(e))
    /\ lastError' = Caught(lastError, e)
    /\ IF GivesUp(opts, isRetryable(opts, lastError'), attempt)
       THEN /\ rpc' = "thrown"
            /\ result' = Thrown(lastError')
       ELSE /\ rpc' = "sleep"
            /\ result' = result
    /\ UNCHANGED <<options, attempt, delay, invocations, waited, rlVars, appVars, extVars>>

\* the timer of setTimeout(resolve, delay) fires: the new delay, attempt++,
\* and the next iteration
TimerFires ==
    /\ rpc = "sleep"
    /\ waited' = Append(waited, delay)
    /\ delay' = NextDelay(opts, delay)
    /\ LoopHead(attempt + 1)
    /\ UNCHANGED <<options, lastError, outcomes, rlVars, appVars, extVars>>

NextRetry ==
    \/ WithRetryCall
    \/ \E v \in Values : OperationResolves(v)
    \/ \E e \in Errors : OperationRejects(e)
    \/ TimerFires

\* ------------------------------------------------------------ URL filter
\* String.prototype.endsWith
EndsWith(str, suffix) ==
    /\ Len(suffix) <= Len(str)
    /\ SubSeq(str, Len(str) - Len(suffix) + 1, Len(str)) = suffix

\* String.prototype.startsWith
StartsWith(str, prefix) ==
    /\ Len(prefix) <= Len(str)
    /\ SubSeq(str, 1, Len(prefix)) = prefix

\* isDomainMatch accepting every hostname that ends in the domain
isDomainMatch_Suffix(hostname, domain) == EndsWith(hostname, domain)

\* isDomainMatch: the exact hostname, or a subdomain of it
isDomainMatch(hostname, domain) ==
    \/ hostname = domain
    \/ EndsWith(hostname, <<".">> \o domain)

\* the host parser of new URL() lower-cases the letters of the host
Lower(c) ==
    CASE c = "W" -> "w" [] c = "Y" -> "y" [] c = "T" -> "t" [] c = "X" -> "x"
      [] OTHER -> c

Https == <<"h", "t", "t", "p", "s", ":", "/", "/">>

\* the position of the first "/" of str, or Len(str) + 1
PathStart(str) ==
    IF \E i \in 1..Len(str) : str[i] = "/"
    THEN CHOOSE i \in 1..Len(str) : str[i] = "/" /\ \A j \in 1..(i - 1) : str[j] # "/"
    ELSE Len(str) + 1

\* new URL(url) for the words of a chat message: [ok |-> FALSE] when the
\* constructor throws (no scheme, or an empty host), else the hostname: the
\* text between "https://" and the path, in lower case
ParseURL(url) ==
    IF ~StartsWith(url, Https)
    THEN [ok |-> FALSE, hostname |-> << >>]
    ELSE LET rest == SubSeq(url, Len(Https) + 1, Len(url))
             host == SubSeq(rest, 1, PathStart(rest) - 1)
         IN  IF host = << >>
             THEN [ok |-> FALSE, hostname |-> << >>]
             ELSE [ok |-> TRUE, hostname |-> [i \in 1..Len(host) |-> Lower(host[i])]]

\* isValidUrl
isValidUrl(url) == ParseURL(url).ok

\* isSupportedPlatform: false when new URL throws
isSupportedPlatform(url) ==
    /\ ParseURL(url).ok
    /\ \E i \in 1..Len(supported) : isDomainMatch(ParseURL(url).hostname, supported[i])

\* the values of SUPPORTED_DOMAINS: the default of env.ts and a list with the
\* short domain x.com
DomainLists ==
    { <<<<"y", "o", "u", "t", "u", "b", "e", ".", "c", "o", "m">>, <<"y", "o", "u", "t", "u", ".", "b", "e">>>>,
      <<<<"y", "o", "u", "t", "u", "b", "e", ".", "c", "o", "m">>, <<"y", "o", "u", "t", "u", ".", "b", "e">>, <<"x", ".", "c", "o", "m">>>> }

\* what users put in front of a domain: up to MaxPrefix letters and dots, no
\* empty label
RECURSIVE Prefixes(_)
Prefixes(n) ==
    IF n = 0 THEN { << >> }
    ELSE Prefixes(n - 1) \cup { Append(p, c) : p \in Prefixes(n - 1), c \in {"x", "e", "."} }

WellFormed(p) ==
    /\ p # << >> => p[1] # "."
    /\ \A i \in 1..(Len(p) - 1) : ~(p[i] = "." /\ p[i + 1] = ".")

Hostnames ==
    { p \o d : p \in { q \in Prefixes(MaxPrefix) : WellFormed(q) },
               d \in {<<"y", "o", "u", "t", "u", "b", "e", ".", "c", "o", "m">>, <<"y", "o", "u", "t", "u", ".", "b", "e">>, <<"x", ".", "c", "o", "m">>} }
    \cup { <<"w", "w", "w", ".", "y", "o", "u", "t", "u", "b", "e", ".", "c", "o", "m">>, <<"e", "v", "i", "l", "y", "o", "u", "t", "u", "b", "e", ".", "c", "o", "m">>, <<"h", "e", "h", "x", ".", "c", "o", "m">>, <<"W", "W", "W", ".", "Y", "o", "u", "T", "u", "b", "e", ".", "c", "o", "m">>, <<"y", "o", "u", "t", "u", "b", "e", ".", "c", "o", "m", ".", "e", "v", "i", "l", ".", "i", "o">> }

\* the words of a message: a host alone, or a URL with or without a path
Words ==
    { scheme \o h \o path : scheme \in { << >>, Https }, h \in Hostnames,
                            path \in { << >>, <<"/", "x", ".", "c", "o", "m">> } }

\* handleMessage filters one word of the message text:
\* isValidUrl(word) && isSupportedPlatform(word)
FilterWord(word) ==
    /\ filtered' = [word |-> word, valid |-> isValidUrl(word),
                    supported |-> isValidUrl(word) /\ isSupportedPlatform(word)]
    /\ UNCHANGED <<supported, dl, hm, extVars, rlVars, retryVars>>

InitUrl ==
    /\ LimiterIdle
    /\ RetryIdle
    /\ supported \in DomainLists
    /\ filtered = [word |-> << >>, valid |-> FALSE, supported |-> FALSE]
    /\ dl = DlIdle
    /\ hm = HmIdle
    /\ ExtIdle

NextUrl == \E word \in Words : FilterWord(word)

\* ------------------------------------------------------- extractor choice
\* hostname.replace(/^www\./, '')
StripWww(hostname) ==
    IF StartsWith(hostname, <<"w", "w", "w", ".">>)
    THEN SubSeq(hostname, 5, Len(hostname))
    ELSE hostname

\* the list of isImageSite
ImageSites ==
    { <<"i", "n", "s", "t", "a", "g", "r", "a", "m", ".", "c", "o", "m">>, <<"t", "w", "i", "t", "t", "e", "r", ".", "c", "o", "m">>, <<"x", ".", "c", "o", "m">>, <<"p", "i", "x", "i", "v", ".", "n", "e", "t">>, <<"d", "e", "v", "i", "a", "n", "t", "a", "r", "t", ".", "c", "o", "m">>, <<"a", "r", "t", "s", "t", "a", "t", "i", "o", "n", ".", "c", "o", "m">> }

\* isImageSite: false when new URL throws, else whether the hostname,
\* without a leading "www.", ends with one of the image sites
isImageSite(url) ==
    /\ ParseURL(url).ok
    /\ \E site \in ImageSites : EndsWith(StripWww(ParseURL(url).hostname), site)

\* the command line getMediaInfo and download build for a URL
Extractor(url) == IF isImageSite(url) THEN "gallery-dl" ELSE "yt-dlp"

\* values of SUPPORTED_DOMAINS: those of DomainLists, and lists with image
\* sites and with a video site whose name ends in the letters of x.com
RouteDomainLists ==
    DomainLists \cup
    { <<<<"y", "o", "u", "t", "u", "b", "e", ".", "c", "o", "m">>, <<"d", "r", "o", "p", "b", "o", "x", ".", "c", "o", "m">>>>,
      <<<<"i", "n", "s", "t", "a", "g", "r", "a", "m", ".", "c", "o", "m">>, <<"x", ".", "c", "o", "m">>, <<"n", "e", "t", "f", "l", "i", "x", ".", "c", "o", "m">>>> }

RouteHostnames ==
    Hostnames \cup
    { <<"d", "r", "o", "p", "b", "o", "x", ".", "c", "o", "m">>, <<"w", "w", "w", ".", "d", "r", "o", "p", "b", "o", "x", ".", "c", "o", "m">>, <<"n", "e", "t", "f", "l", "i", "x", ".", "c", "o", "m">>, <<"i", "n", "s", "t", "a", "g", "r", "a", "m", ".", "c", "o", "m">>, <<"w", "w", "w", ".", "i", "n", "s", "t", "a", "g", "r", "a", "m", ".", "c", "o", "m">>, <<"c", "d", "n", ".", "i", "n", "s", "t", "a", "g", "r", "a", "m", ".", "c", "o", "m">>, <<"w", "w", "w", ".", "x", ".", "c", "o", "m">> }

RouteWords ==
    { scheme \o h \o path : scheme \in { << >>, Https }, h \in RouteHostnames,
                            path \in { << >>, <<"/", "p">> } }

\* handleMessage filters one word of the message text and, when it is a
\* supported URL, getMediaInfo chooses the extractor for it
RouteUrl(word) ==
    LET passes == isValidUrl(word) /\ isSupportedPlatform(word)
    IN  /\ filtered' = [word |-> word, valid |-> isValidUrl(word), supported |-> passes]
        /\ route' = IF passes
                    THEN [called |-> TRUE, hostname |-> ParseURL(word).hostname,
                          tool |-> Extractor(word)]
                    ELSE NoRoute
        /\ UNCHANGED <<supported, dl, hm, cookie, inflight, lockout, share, rlVars, retryVars>>

InitRoute ==
    /\ LimiterIdle
    /\ RetryIdle
    /\ supported \in RouteDomainLists
    /\ filtered = [word |-> << >>, valid |-> FALSE, supported |-> FALSE]
    /\ dl = DlIdle
    /\ hm = HmIdle
    /\ ExtIdle

NextRoute == \E word \in RouteWords : RouteUrl(word)

\* ------------------------------------------------------------- downloader
\* getMediaInfo resolves to null or to MediaMetadata (format, and the number
\* of formats listed)
Null == [kind |-> "null"]
Metadata(format, formats) == [kind |-> "metadata", format |-> format, formats |-> formats]

\* the catch block of download throwing the error on
Failure_Rethrow(error) ==
    [kind |-> "throw", success |-> FALSE, error |-> [message |-> error, text |-> error],
     filePaths |-> << >>, mediaInfo |-> Null]

\* the DownloadResult objects download builds
Failure(error) ==
    [kind |-> "result", success |-> FALSE, error |-> error, filePaths |-> << >>,
     mediaInfo |-> Null]
Success(filePaths, mediaInfo) ==
    [kind |-> "result", success |-> TRUE, error |-> << >>, filePaths |-> filePaths,
     mediaInfo |-> mediaInfo]

\* download reporting success without the metadata
AfterDownload_NoInfoCheck(filePaths, mediaInfo) == Success(filePaths, mediaInfo)

\* the end of download, once files were found: getMediaInfo(url) decides
AfterDownload(filePaths, mediaInfo) ==
    IF mediaInfo = Null
    THEN Failure(<<"F", "a", "i", "l", "e", "d", " ", "t", "o", " ", "g", "e", "t", " ", "m", "e", "d", "i", "a", " ", "i", "n", "f", "o">>)
    ELSE Success(filePaths, mediaInfo)

\* error instanceof Error ? error.message : 'Unknown error occurred'
DownloadErrorText(error) ==
    IF error.message # << >> THEN error.message ELSE <<"U", "n", "k", "n", "o", "w", "n", " ", "e", "r", "r", "o", "r", " ", "o", "c", "c", "u", "r", "r", "e", "d">>

\* what child_process.exec rejects with: a failed command, and one whose
\* output names a network error
ErrCommandFailed == [message |-> <<"C", "o", "m", "m", "a", "n", "d", " ", "f", "a", "i", "l", "e", "d">>, text |-> <<"E", "r", "r", "o", "r", ":", " ", "C", "o", "m", "m", "a", "n", "d", " ", "f", "a", "i", "l", "e", "d">>]
ErrCommandNetwork == [message |-> <<"C", "o", "m", "m", "a", "n", "d", " ", "f", "a", "i", "l", "e", "d", ":", " ", "g", "e", "t", "a", "d", "d", "r", "i", "n", "f", "o">>, text |-> <<"E", "r", "r", "o", "r", ":", " ", "C", "o", "m", "m", "a", "n", "d", " ", "f", "a", "i", "l", "e", "d", ":", " ", "g", "e", "t", "a", "d", "d", "r", "i", "n", "f", "o">>]
ExecErrors == {ErrCommandFailed, ErrCommandNetwork}

\* the lines yt-dlp prints: a marker and the path that follows it
Markers == {"Merger", "ExtractAudio", "download", "other"}
Paths == {<<"a">>, <<"b">>, <<"c">>}
Lines == [marker : Markers, path : Paths \cup {<< >>}]

RECURSIVE SeqsUpTo(_, _)
SeqsUpTo(S, n) ==
    IF n = 0 THEN { << >> }
    ELSE SeqsUpTo(S, n - 1) \cup { Append(q, x) : q \in SeqsUpTo(S, n - 1), x \in S }

\* extractFilePath: the path of the last line that carries a marker (it may
\* be empty), null when no line does
extractFilePath(lines) ==
    LET marked == { i \in 1..Len(lines) : lines[i].marker # "other" }
    IN  IF marked = {} THEN Null
        ELSE LET i == CHOOSE k \in marked : \A j \in marked : j <= k
             IN  [kind |-> "path", path |-> lines[i].path]

\* stdout.trim().split('\n').filter(Boolean) of gallery-dl: the lines that
\* are not empty
GalleryPaths(lines) ==
    LET F[i \in 0..Len(lines)] ==
            IF i = 0 THEN << >>
            ELSE IF lines[i] = << >> THEN F[i - 1] ELSE Append(F[i - 1], lines[i])
    IN  F[Len(lines)]

\* what the tools print, as far as the downloader tells it apart
\*   gallery-dl -j:   the post and its media | an empty array | no JSON
\*   yt-dlp --print:  the info object | no JSON
\*   yt-dlp formats:  formats with a video codec | audio only | null | no JSON
JsonKinds == {"post", "empty", "info", "video", "audio", "null", "garbage"}

\* what the command awaited at pc can print
Printable(pc) ==
    CASE pc = "gallery-j" -> {"post", "empty", "garbage"}
      [] pc = "info" -> {"info", "garbage"}
      [] OTHER -> {"video", "audio", "null", "garbage"}

\* isImageSite decides the tool; getMediaInfo starts
StartInfo(d) ==
    [d EXCEPT !.pc = IF d.site = "image" THEN "gallery-j" ELSE "info",
              !.attempt = 1, !.failed = {}]

\* getMediaInfo returns v: the public call settles, or download goes on
ReturnInfo(d, v, failedStep) ==
    LET f == d.failed \cup failedStep
    IN  IF d.call = "getMediaInfo"
        THEN [d EXCEPT !.pc = "done", !.failed = f, !.result = v]
        ELSE [d EXCEPT !.pc = "done", !.failed = f,
                       !.result = AfterDownload(d.filePaths, v)]

\* a caller invokes downloader.getMediaInfo(url)
GetMediaInfoCall(site) ==
    /\ dl.call = "none"
    /\ dl' = StartInfo([DlIdle EXCEPT !.call = "getMediaInfo", !.site = site])
    /\ UNCHANGED <<urlVars, hm, extVars, rlVars, retryVars>>

\* a caller invokes downloader.download(url, options)
DownloadCall(site) ==
    /\ dl.call = "none"
    /\ dl' = [DlIdle EXCEPT !.call = "download", !.site = site,
                            !.pc = IF site = "image" THEN "dl-gallery" ELSE "dl-formats"]
    /\ UNCHANGED <<urlVars, hm, extVars, rlVars, retryVars>>

\* the command that is running exits with an error: execAsync rejects
ExecRejects(e) ==
    /\ dl.pc \notin {"idle", "done"}
    /\ dl' = CASE dl.pc = "gallery-j" -> ReturnInfo(dl, Null, {"gallery-dl"})
               [] dl.pc = "info" ->
                    \* withRetry(() => execAsync(command)), default options
                    IF GivesUp(defaultOptions, isRetryable(defaultOptions, e), dl.attempt)
                    THEN ReturnInfo(dl, Null, {"yt-dlp"})
                    ELSE [dl EXCEPT !.attempt = dl.attempt + 1]
               [] dl.pc = "formats" ->
                    \* getFormats catches and returns []: no video codec
                    ReturnInfo(dl, Metadata("audio", 0), {"formats"})
               [] dl.pc = "dl-gallery" ->
                    [dl EXCEPT !.pc = "done", !.result = Failure(DownloadErrorText(e))]
               [] dl.pc = "dl-formats" -> [dl EXCEPT !.pc = "dl-yt-dlp"]
               [] dl.pc = "dl-yt-dlp" ->
                    [dl EXCEPT !.pc = "done", !.result = Failure(DownloadErrorText(e))]
    /\ UNCHANGED <<urlVars, hm, extVars, rlVars, retryVars>>

\* a metadata command exits normally and has printed json
ExecPrints(json) ==
    /\ dl.pc \in {"gallery-j", "info", "formats", "dl-formats"}
    /\ json \in Printable(dl.pc)
    /\ dl' = CASE dl.pc = "gallery-j" ->
                    IF json = "post" THEN ReturnInfo(dl, Metadata("image", 0), {})
                    ELSE ReturnInfo(dl, Null, {"parse"})
               [] dl.pc = "info" ->
                    IF json = "info" THEN [dl EXCEPT !.pc = "formats"]
                    ELSE ReturnInfo(dl, Null, {"parse"})
               [] dl.pc = "formats" ->
                    CASE json = "video" -> ReturnInfo(dl, Metadata("video", 1), {})
                      [] json = "audio" -> ReturnInfo(dl, Metadata("audio", 1), {})
                      [] json = "null" -> ReturnInfo(dl, Null, {"formats"})
                      [] OTHER -> ReturnInfo(dl, Metadata("audio", 0), {"formats"})
               [] dl.pc = "dl-formats" -> [dl EXCEPT !.pc = "dl-yt-dlp"]
    /\ UNCHANGED <<urlVars, hm, extVars, rlVars, retryVars>>

\* gallery-dl exits normally and has printed the paths it wrote, one a line
GalleryDownloads(lines) ==
    /\ dl.pc = "dl-gallery"
    /\ dl' = IF GalleryPaths(lines) = << >>
             THEN [dl EXCEPT !.pc = "done", !.result = Failure(<<"N", "o", " ", "f", "i", "l", "e", "s", " ", "w", "e", "r", "e", " ", "d", "o", "w", "n", "l", "o", "a", "d", "e", "d">>)]
             ELSE StartInfo([dl EXCEPT !.filePaths = GalleryPaths(lines)])
    /\ UNCHANGED <<urlVars, hm, extVars, rlVars, retryVars>>

\* yt-dlp exits normally and has printed its progress lines
YtDlpDownloads(lines) ==
    /\ dl.pc = "dl-yt-dlp"
    /\ dl' = LET filePath == extractFilePath(lines)
             IN  IF filePath = Null \/ filePath.path = << >>
                 THEN [dl EXCEPT !.pc = "done", !.result = Failure(<<"F", "a", "i", "l", "e", "d", " ", "t", "o", " ", "e", "x", "t", "r", "a", "c", "t", " ", "d", "o", "w", "n", "l", "o", "a", "d", "e", "d", " ", "f", "i", "l", "e", " ", "p", "a", "t", "h">>)]
                 ELSE StartInfo([dl EXCEPT !.filePaths = <<filePath.path>>])
    /\ UNCHANGED <<urlVars, hm, extVars, rlVars, retryVars>>

InitDl ==
    /\ LimiterIdle
    /\ RetryIdle
    /\ AppIdle

NextDl ==
    \/ \E site \in {"image", "video"} : GetMediaInfoCall(site)
    \/ \E site \in {"image", "video"} : DownloadCall(site)
    \/ \E e \in ExecErrors : ExecRejects(e)
    \/ \E json \in JsonKinds : ExecPrints(json)
    \/ \E lines \in SeqsUpTo(Paths \cup {<< >>}, MaxLines) : GalleryDownloads(lines)
    \/ \E lines \in SeqsUpTo(Lines, MaxLines) : YtDlpDownloads(lines)

\* ------------------------------------------------- the dispatch wrappers
\* handleMessage calls withRetry(() => downloader.getMediaInfo(url), ...) and
\* withRetry(() => downloader.download(url, ...), ...): the operation of
\* withRetry is a call of the downloader, and what the call settles with is
\* what operation() settles with. The timer of withRetry is no step here:
\* withRetry never reaches its setTimeout (C25 checks rpc # "sleep").

\* the options of the two call sites
InfoOptions == [maxAttempts |-> 5, initialDelay |-> 2000, maxDelay |-> 15000]
DownloadOptions == [maxAttempts |-> 3, initialDelay |-> 3000, maxDelay |-> 20000]

\* the call sites, and the same with every other number of attempts
WrapOptions ==
    {InfoOptions, DownloadOptions}
    \cup { [InfoOptions EXCEPT !.maxAttempts = n] : n \in 1..MaxAttempts }
    \cup { [DownloadOptions EXCEPT !.maxAttempts = n] : n \in 1..MaxAttempts }

\* what the promise of the downloader resolved to, as handleMessage tells it
ResultTag(r) ==
    CASE r.kind = "null" -> "null"
      [] r.kind = "metadata" -> "metadata"
      [] OTHER -> IF r.success THEN "success" ELSE "failure"

\* operation() of the first wrapper: downloader.getMediaInfo(url)
WrappedGetMediaInfo(site) ==
    /\ rpc = "operation"
    /\ options.initialDelay = InfoOptions.initialDelay
    /\ GetMediaInfoCall(site)

\* operation() of the second wrapper: downloader.download(url, ...)
WrappedDownload(site) ==
    /\ rpc = "operation"
    /\ options.initialDelay = DownloadOptions.initialDelay
    /\ DownloadCall(site)

\* the promise of the downloader settles, and with it operation()
WrappedSettles ==
    /\ dl.pc = "done"
    /\ IF dl.result.kind = "throw"
       THEN OperationRejects(dl.result.error)
       ELSE OperationResolves(ResultTag(dl.result))

InitWrap ==
    /\ LimiterIdle
    /\ AppIdle
    /\ options \in WrapOptions
    /\ rpc = "start"
    /\ attempt = 0
    /\ delay = 0
    /\ lastError = Undefined
    /\ result = Pending
    /\ invocations = 0
    /\ outcomes = << >>
    /\ waited = << >>

NextWrap ==
    \/ WithRetryCall
    \/ \E site \in {"image", "video"} : WrappedGetMediaInfo(site)
    \/ \E site \in {"image", "video"} : WrappedDownload(site)
    \/ \E e \in ExecErrors : ExecRejects(e)
    \/ \E json \in JsonKinds : ExecPrints(json)
    \/ \E lines \in SeqsUpTo(Paths \cup {<< >>}, MaxLines) : GalleryDownloads(lines)
    \/ \E lines \in SeqsUpTo(Lines, MaxLines) : YtDlpDownloads(lines)
    \/ WrappedSettles

\* ------------------------------------------------------ cookie selection
\* process.env is a sequence of [key, value] in the order of Object.entries;
\* keys and domains are character sequences, values are strings ("" is an
\* empty value).

UpperCase == <<"A", "B", "C", "D", "E", "F", "G", "H", "I", "J", "K", "L", "M", "N", "O", "P", "Q", "R", "S", "T", "U", "V", "W", "X", "Y", "Z">>
LowerCase == <<"a", "b", "c", "d", "e", "f", "g", "h", "i", "j", "k", "l", "m", "n", "o", "p", "q", "r", "s", "t", "u", "v", "w", "x", "y", "z">>

\* String.prototype.toLowerCase over the characters of the keys
toLowerCase(str) ==
    [i \in 1..Len(str) |->
        IF \E k \in 1..Len(UpperCase) : UpperCase[k] = str[i]
        THEN LowerCase[CHOOSE k \in 1..Len(UpperCase) : UpperCase[k] = str[i]]
        ELSE str[i]]

CookiePrefix == <<"C", "O", "O", "K", "I", "E", "S", "_", "F", "I", "L", "E", "_">>

\* `path || null`, `process.env.COOKIES_FILE || null`
OrNull(path) == IF path = "" THEN Null ELSE [kind |-> "file", path |-> path]

\* cookieEnvVars: the entries whose key starts with COOKIES_FILE_, as
\* { site, path }
cookieEnvVars(processEnv) ==
    LET keep == SelectSeq(processEnv, LAMBDA e : StartsWith(e.key, CookiePrefix))
    IN  [i \in 1..Len(keep) |->
            [site |-> toLowerCase(SubSeq(keep[i].key, Len(CookiePrefix) + 1, Len(keep[i].key))),
             path |-> keep[i].value]]

\* the switch of getCookieFileForDomain: does the entry of site answer for
\* the domain
SiteMatches(site, domain) ==
    CASE site = <<"y", "o", "u", "t", "u", "b", "e">> -> domain = <<"y", "o", "u", "t", "u", "b", "e", ".", "c", "o", "m">> \/ domain = <<"y", "o", "u", "t", "u", ".", "b", "e">>
      [] site \in {<<"t", "w", "i", "t", "t", "e", "r">>, <<"x">>} -> domain = <<"t", "w", "i", "t", "t", "e", "r", ".", "c", "o", "m">> \/ domain = <<"x", ".", "c", "o", "m">>
      [] OTHER -> domain = site \o <<".", "c", "o", "m">> \/ domain = site

\* process.env.COOKIES_FILE: "" when the variable is not set
EnvCookiesFile(processEnv) ==
    IF \E i \in 1..Len(processEnv) : processEnv[i].key = <<"C", "O", "O", "K", "I", "E", "S", "_", "F", "I", "L", "E">>
    THEN processEnv[CHOOSE i \in 1..Len(processEnv) : processEnv[i].key = <<"C", "O", "O", "K", "I", "E", "S", "_", "F", "I", "L", "E">>].value
    ELSE ""

\* getCookieFileForDomain: the first entry that answers for the domain
\* returns its path or null; with no such entry, COOKIES_FILE or null
getCookieFileForDomain(processEnv, domain) ==
    LET vs == cookieEnvVars(processEnv)
        hits == { i \in 1..Len(vs) : SiteMatches(vs[i].site, domain) }
    IN  IF hits # {}
        THEN OrNull(vs[CHOOSE i \in hits : \A j \in hits : i <= j].path)
        ELSE OrNull(EnvCookiesFile(processEnv))

\* the variables an environment may set
EnvEntries ==
    { [key |-> <<"C", "O", "O", "K", "I", "E", "S", "_", "F", "I", "L", "E", "_", "Y", "O", "U", "T", "U", "B", "E">>, value |-> "/cookies/youtube.txt"],
      [key |-> <<"C", "O", "O", "K", "I", "E", "S", "_", "F", "I", "L", "E", "_", "Y", "O", "U", "T", "U", "B", "E">>, value |-> ""],
      [key |-> <<"C", "O", "O", "K", "I", "E", "S", "_", "F", "I", "L", "E", "_", "T", "W", "I", "T", "T", "E", "R">>, value |-> "/cookies/twitter.txt"],
      [key |-> <<"C", "O", "O", "K", "I", "E", "S", "_", "F", "I", "L", "E", "_", "X">>, value |-> "/cookies/x.txt"],
      [key |-> <<"C", "O", "O", "K", "I", "E", "S", "_", "F", "I", "L", "E", "_", "I", "N", "S", "T", "A", "G", "R", "A", "M">>, value |-> "/cookies/instagram.txt"],
      [key |-> <<"C", "O", "O", "K", "I", "E", "S", "_", "F", "I", "L", "E">>, value |-> "/cookies/default.txt"],
      [key |-> <<"B", "O", "T", "_", "T", "O", "K", "E", "N">>, value |-> "123:abc"] }

\* the environments: up to MaxEnv variables, no key twice
Environments ==
    { e \in SeqsUpTo(EnvEntries, MaxEnv) :
        \A i, j \in 1..Len(e) : i # j => e[i].key # e[j].key }

\* the domains getYtDlpCookieArgs and getGalleryDlCookieArgs ask for:
\* hostnames without a leading 'www.'
CookieDomains ==
    { <<"y", "o", "u", "t", "u", "b", "e", ".", "c", "o", "m">>, <<"y", "o", "u", "t", "u", ".", "b", "e">>, <<"t", "w", "i", "t", "t", "e", "r", ".", "c", "o", "m">>, <<"x", ".", "c", "o", "m">>, <<"i", "n", "s", "t", "a", "g", "r", "a", "m", ".", "c", "o", "m">>, <<"i", "n", "s", "t", "a", "g", "r", "a", "m">>, <<"m", "u", "s", "i", "c", ".", "y", "o", "u", "t", "u", "b", "e", ".", "c", "o", "m">>, <<"e", "v", "i", "l", "y", "o", "u", "t", "u", "b", "e", ".", "c", "o", "m">>, <<"v", "i", "m", "e", "o", ".", "c", "o", "m">> }

\* getCookieFileForDomain(domain) under the environment processEnv
GetCookieFile(processEnv, domain) ==
    /\ cookie' = [called |-> TRUE, env |-> processEnv,
                  fallback |-> EnvCookiesFile(processEnv), domain |-> domain,
                  file |-> getCookieFileForDomain(processEnv, domain)]
    /\ UNCHANGED <<rlVars, retryVars, appVars, inflight, lockout, route, share>>

InitCookie ==
    /\ LimiterIdle
    /\ RetryIdle
    /\ AppIdle

NextCookie == \E processEnv \in Environments, domain \in CookieDomains : GetCookieFile(processEnv, domain)

\* ------------------------------------------------- the temporary directory
\* the URLs of the messages
ShareUrls == {"https://youtu.be/a", "https://youtu.be/b"}

\* the file yt-dlp writes for a URL under the output template
\* TMP_DIR/%(title)s-%(id)s.%(ext)s: the title, the id and the extension are
\* those of the media, the same for every request of the URL
OutputPath(url) ==
    IF url = "https://youtu.be/a" THEN "tmp/A-a.mp4" ELSE "tmp/B-b.mp4"

\* the handler of the request is between the start of its download and its
\* return
InFlight(q) == q.pc \in {"downloading", "probe", "send", "cleanup"}

\* request r sends or deletes paths: the other requests in flight that
\* downloaded one of them are marked
Touch(req, r, paths) ==
    [q \in DOMAIN req |->
        IF q # r /\ InFlight(req[q]) /\ req[q].files \cap paths # {}
        THEN [req[q] EXCEPT !.shared = TRUE]
        ELSE req[q]]

\* download(url) starts yt-dlp for a message
ShareDownloadStarts(r, url) ==
    /\ share.req[r].pc = "idle"
    /\ share' = [share EXCEPT !.req[r] =
                    [NoRequest EXCEPT !.pc = "downloading", !.url = url,
                                      !.existed = OutputPath(url) \in share.disk]]
    /\ UNCHANGED <<rlVars, retryVars, appVars, cookie, inflight, lockout, route>>

\* yt-dlp exits: when the file was already there it reports so and prints no
\* Destination line, extractFilePath returns null and the download fails;
\* otherwise the file is written and its path returned
ShareDownloadEnds(r) ==
    LET q == share.req[r]
        path == OutputPath(q.url)
    IN  /\ q.pc = "downloading"
        /\ share' = IF q.existed
                    THEN [share EXCEPT !.req[r].pc = "failed"]
                    ELSE [share EXCEPT !.req[r].pc = "probe", !.req[r].files = {path},
                                       !.disk = @ \cup {path}]
        /\ UNCHANGED <<rlVars, retryVars, appVars, cookie, inflight, lockout, route>>

\* ffprobe reads every file of the result: it fails when one is missing and
\* the handler replies with the failure
ShareProbe(r) ==
    LET q == share.req[r]
    IN  /\ q.pc = "probe"
        /\ share' = [share EXCEPT !.req[r].pc =
                        IF q.files \subseteq share.disk THEN "send" ELSE "failed"]
        /\ UNCHANGED <<rlVars, retryVars, appVars, cookie, inflight, lockout, route>>

\* the files are sent to the chat: the upload fails when one is missing
ShareSend(r) ==
    LET q == share.req[r]
    IN  /\ q.pc = "send"
        /\ share' = IF q.files \subseteq share.disk
                    THEN [share EXCEPT !.req = [Touch(share.req, r, q.files) EXCEPT
                                                  ![r].pc = "cleanup", ![r].sent = q.files]]
                    ELSE [share EXCEPT !.req[r].pc = "failed"]
        /\ UNCHANGED <<rlVars, retryVars, appVars, cookie, inflight, lockout, route>>

\* downloader.cleanup unlinks every file of the result, ignoring errors
ShareCleanup(r) ==
    LET q == share.req[r]
    IN  /\ q.pc = "cleanup"
        /\ share' = [share EXCEPT !.req = [Touch(share.req, r, q.files \cap share.disk) EXCEPT
                                              ![r].pc = "done",
                                              ![r].deleted = q.files \cap share.disk],
                                  !.disk = @ \ q.files]
        /\ UNCHANGED <<rlVars, retryVars, appVars, cookie, inflight, lockout, route>>

\* the handler has returned
ShareReturns(r) ==
    /\ share.req[r].pc \in {"done", "failed"}
    /\ share' = [share EXCEPT !.req[r] = NoRequest]
    /\ UNCHANGED <<rlVars, retryVars, appVars, cookie, inflight, lockout, route>>

InitShare ==
    /\ LimiterIdle
    /\ RetryIdle
    /\ AppIdle

NextShare ==
    \/ \E r \in 1..NumRequests, url \in ShareUrls : ShareDownloadStarts(r, url)
    \/ \E r \in 1..NumRequests : ShareDownloadEnds(r)
    \/ \E r \in 1..NumRequests : ShareProbe(r)
    \/ \E r \in 1..NumRequests : ShareSend(r)
    \/ \E r \in 1..NumRequests : ShareCleanup(r)
    \/ \E r \in 1..NumRequests : ShareReturns(r)

\* -------------------------------------------------------- message dispatch
\* handleMessage as in the revision that handles several files per message.
\* hm.pc names the call the handler is awaiting:
\*   "typing", "action"   sendChatAction of actionManager.start(...)
\*   "info", "download"   downloader.getMediaInfo / downloader.download
\*   "probe"              ffprobe of every file
\*   "items"              thumbnails and the size check of every file
\*   "send"               replyWithVoice / Video / Photo / MediaGroup
\*   "reply-info", "reply-download"      the failure texts of the try block
\*   "catch-inner", "catch-outer"        ctx.reply of the two catch blocks
\*   "catch-bot"          ctx.reply of the message:text handler of createBot
\*   "cleanup"            downloader.cleanup of the files
\* hm.interval is ChatActionManager.interval (set or null), hm.timers the
\* intervals that are armed, hm.armed the calls of setInterval so far.
\* hm.files are result.filePaths, hm.sizes the sizes ffprobe reported (0 when
\* it reported none), hm.thumbs the thumbnails ffmpeg wrote, hm.sent the
\* files handed to a media reply, hm.deleted the paths given to cleanup and
\* hm.error what was thrown in the try block ("none", "probe", "size", "send").
\* hm.stopped says that stop() has returned and start was not called since.
\* hm.chain is the sendActionWithRetry an interval tick started ("none",
\* "call": sendChatAction under way, "sleep": waiting to retry), one at a
\* time; hm.chainAttempt is its attempt and hm.late counts the sendChatAction
\* calls made while hm.stopped.

\* env.MAX_FILE_SIZE, the default
MAX_FILE_SIZE == 50000000

\* the sizes ffprobe reports: none (the code takes 0), the limit, one more
FileSizes == {0, MAX_FILE_SIZE, MAX_FILE_SIZE + 1}

\* the files a download leaves behind: a video and an image
MediaPaths == {<<"a", ".", "m", "p", "4">>, <<"b", ".", "j", "p", "g">>}

\* path.endsWith('.mp4')
isVideo(path) == EndsWith(path, <<".", "m", "p", "4">>)

\* `${path}.thumb.jpg`
Thumb(path) == path \o <<".", "t", "h", "u", "m", "b", ".", "j", "p", "g">>

\* the size check accepting every file
TooLarge_Never(fileSize) == fileSize > fileSize

\* fileSize > env.MAX_FILE_SIZE
TooLarge(fileSize) == fileSize > MAX_FILE_SIZE

\* the paths the success path gives to downloader.cleanup: every file and
\* the thumbnail path of every video
CleanupFiles(files) ==
    { files[i] : i \in 1..Len(files) }
    \cup { Thumb(files[i]) : i \in { j \in 1..Len(files) : isVideo(files[j]) } }

\* ChatActionManager.stop leaving the interval armed
stop_Noop(h) == h

\* ChatActionManager.stop
stop(h) ==
    IF h.interval
    THEN [h EXCEPT !.interval = FALSE, !.timers = h.timers - 1, !.stopped = TRUE]
    ELSE [h EXCEPT !.stopped = TRUE]

\* the options of sendActionWithRetry
ActionOptions == MergeOptions([maxAttempts |-> 5, initialDelay |-> 500, maxDelay |-> 5000])

\* the block an awaited call belongs to
Level(pc) ==
    CASE pc = "catch-inner" -> "inner"
      [] pc = "catch-outer" -> "outer"
      [] pc = "catch-bot" -> "bot"
      [] OTHER -> "body"

\* an exception of the try block dropped without a reply
Catch_Swallow(level) ==
    CASE level = "body" -> "done"
      [] level = "inner" -> "catch-outer"
      [] level = "outer" -> "catch-bot"
      [] OTHER -> "done"

\* the catch block that an exception thrown in a block reaches: the inner
\* catch, the outer catch, the catch of createBot; the reply of createBot is
\* in a try block of its own
Catch(level) ==
    CASE level = "body" -> "catch-inner"
      [] level = "inner" -> "catch-outer"
      [] level = "outer" -> "catch-bot"
      [] OTHER -> "done"

\* the calls that are replies to the user
ReplyCalls == {"send", "reply-info", "reply-download", "catch-inner", "catch-outer", "catch-bot"}

\* the text of a failure reply: the literals of handleMessage and createBot
\* (the text after a failed download ends with result.error, left out here)
ReplyText(pc) ==
    CASE pc = "reply-info" -> <<"F", "a", "i", "l", "e", "d", " ", "t", "o", " ", "g", "e", "t", " ", "m", "e", "d", "i", "a", " ", "i", "n", "f", "o", "r", "m", "a", "t", "i", "o", "n", " ", "a", "f", "t", "e", "r", " ", "s", "e", "v", "e", "r", "a", "l", " ", "a", "t", "t", "e", "m", "p", "t", "s">>
      [] pc = "reply-download" -> <<"F", "a", "i", "l", "e", "d", " ", "t", "o", " ", "p", "r", "o", "c", "e", "s", "s", " ", "m", "e", "d", "i", "a", " ", "a", "f", "t", "e", "r", " ", "s", "e", "v", "e", "r", "a", "l", " ", "a", "t", "t", "e", "m", "p", "t", "s", ":", " ">>
      [] pc = "catch-inner" -> <<"F", "a", "i", "l", "e", "d", " ", "t", "o", " ", "p", "r", "o", "c", "e", "s", "s", " ", "m", "e", "d", "i", "a", " ", "r", "e", "q", "u", "e", "s", "t">>
      [] pc = "catch-outer" -> <<"F", "a", "i", "l", "e", "d", " ", "t", "o", " ", "p", "r", "o", "c", "e", "s", "s", " ", "m", "e", "s", "s", "a", "g", "e">>
      [] pc = "catch-bot" -> <<"S", "o", "r", "r", "y", ",", " ", "t", "h", "e", "r", "e", " ", "w", "a", "s", " ", "a", "n", " ", "e", "r", "r", "o", "r", " ", "p", "r", "o", "c", "e", "s", "s", "i", "n", "g", " ", "y", "o", "u", "r", " ", "r", "e", "q", "u", "e", "s", "t", ".", " ", "P", "l", "e", "a", "s", "e", " ", "t", "r", "y", " ", "a", "g", "a", "i", "n", ".">>
      [] OTHER -> << >>

\* the handler goes on to the call pc; a reply is attempted by calling it
Issue(h, pc) ==
    [h EXCEPT !.pc = pc,
              !.replies = IF pc \in ReplyCalls THEN Append(h.replies, pc) ELSE h.replies]

\* an exception is thrown by the call the handler awaited
Throw(h) == Issue(h, Catch(Level(h.pc)))

\* bot.on('message:text'): a message from userId with n supported URLs among
\* its words; http says whether the text includes 'http' (new URL accepts
\* 'HTTPS://...' too), and only then is handleMessage called; handleMessage
\* returns when there is no supported URL, else starts 'typing'
MessageArrives(userId, n, http) ==
    /\ hm.pc = "idle"
    /\ hm' = [HmIdle EXCEPT !.from = userId, !.urls = n, !.called = http,
                            !.pc = IF n = 0 \/ ~http THEN "done" ELSE "typing"]
    /\ UNCHANGED <<urlVars, dl, extVars, rlVars, retryVars>>

\* sendActionWithRetry settles in ChatActionManager.start: setInterval after a
\* success, stop() in the catch block after a failure; then the handler
\* starts the acquisition
ChatActionSettles(ok) ==
    /\ hm.pc \in {"typing", "action"}
    /\ LET h == IF ok
                THEN [hm EXCEPT !.interval = TRUE, !.timers = hm.timers + 1,
                                !.armed = hm.armed + 1]
                ELSE stop(hm)
           call == IF hm.pc = "typing" THEN "info" ELSE "download"
       IN  hm' = [Issue(h, call) EXCEPT !.acquired = h.acquired \cup {call}]
    /\ UNCHANGED <<urlVars, dl, extVars, rlVars, retryVars>>

\* withRetry(() => downloader.getMediaInfo(url)) resolves: stop() and the
\* failure text for null, else start(action), which begins with stop()
InfoSettles(mediaInfo) ==
    /\ hm.pc = "info"
    /\ hm' = IF mediaInfo = Null
             THEN Issue(stop(hm), "reply-info")
             ELSE [Issue(stop(hm), "action") EXCEPT !.stopped = FALSE]
    /\ UNCHANGED <<urlVars, dl, extVars, rlVars, retryVars>>

\* withRetry(() => downloader.download(...)) resolves: stop(), then the
\* failure text or the probing of the files
DownloadSettles(r) ==
    /\ hm.pc = "download"
    /\ hm' = IF ~r.success \/ r.filePaths = << >> \/ r.mediaInfo = Null
             THEN Issue(stop(hm), "reply-download")
             ELSE [Issue(stop(hm), "probe") EXCEPT !.files = r.filePaths]
    /\ UNCHANGED <<urlVars, dl, extVars, rlVars, retryVars>>

\* Promise.all of ffprobe over the files: it reports a size for every file,
\* or one of the commands (or JSON.parse) fails
ProbeSettles(sizes, ok) ==
    /\ hm.pc = "probe"
    /\ DOMAIN sizes = 1..Len(hm.files)
    /\ hm' = IF ok
             THEN [Issue(hm, "items") EXCEPT !.sizes = sizes]
             ELSE [Throw(hm) EXCEPT !.error = "probe"]
    /\ UNCHANGED <<urlVars, dl, extVars, rlVars, retryVars>>

\* Promise.all of the items: ffmpeg writes a thumbnail for the videos in
\* made (a failure is caught), then a file over MAX_FILE_SIZE throws;
\* otherwise the files are handed to the media reply
ItemsSettle(made) ==
    /\ hm.pc = "items"
    /\ made \subseteq { i \in 1..Len(hm.files) : isVideo(hm.files[i]) }
    /\ LET h == [hm EXCEPT !.thumbs = { Thumb(hm.files[i]) : i \in made }]
       IN  hm' = IF \E i \in 1..Len(h.files) : TooLarge(h.sizes[i])
                 THEN [Throw(h) EXCEPT !.error = "size"]
                 ELSE [Issue(h, "send") EXCEPT !.sent = h.files]
    /\ UNCHANGED <<urlVars, dl, extVars, rlVars, retryVars>>

\* a reply call settles: after the media the files are cleaned up, after a
\* text the handler returns; a rejection is thrown into the enclosing block
ReplySettles(ok) ==
    /\ hm.pc \in ReplyCalls
    /\ hm' = IF ok
             THEN Issue(hm, IF hm.pc = "send" THEN "cleanup" ELSE "done")
             ELSE [Throw(hm) EXCEPT !.error = IF hm.pc = "send" THEN "send" ELSE hm.error]
    /\ UNCHANGED <<urlVars, dl, extVars, rlVars, retryVars>>

\* downloader.cleanup is called for every file and for the thumbnail path of
\* every video; it never rejects; the handler returns
CleanupSettles ==
    /\ hm.pc = "cleanup"
    /\ hm' = [Issue(hm, "done") EXCEPT !.deleted = CleanupFiles(hm.files)]
    /\ UNCHANGED <<urlVars, dl, extVars, rlVars, retryVars>>

\* an armed interval fires: the callback calls sendActionWithRetry, whose
\* withRetry makes the first sendChatAction call
IntervalTick ==
    /\ hm.timers > 0
    /\ hm.ticks < MaxTicks
    /\ hm.chain = "none"
    /\ hm' = [hm EXCEPT !.ticks = hm.ticks + 1, !.chain = "call", !.chainAttempt = 1]
    /\ UNCHANGED <<urlVars, dl, extVars, rlVars, retryVars>>

\* the sendChatAction call of the callback resolves: the chain is over
KeepaliveResolves ==
    /\ hm.chain = "call"
    /\ hm' = [hm EXCEPT !.chain = "none"]
    /\ UNCHANGED <<urlVars, dl, extVars, rlVars, retryVars>>

\* the sendChatAction call of the callback rejects with e: withRetry throws
\* (the callback logs it) or waits for its timer
KeepaliveRejects(e) ==
    /\ hm.chain = "call"
    /\ hm' = IF GivesUp(ActionOptions, isRetryable(ActionOptions, e), hm.chainAttempt)
             THEN [hm EXCEPT !.chain = "none"]
             ELSE [hm EXCEPT !.chain = "sleep"]
    /\ UNCHANGED <<urlVars, dl, extVars, rlVars, retryVars>>

\* the timer of withRetry fires in the chain of the callback: the next
\* attempt calls sendChatAction, whatever stop() did in between
KeepaliveTimerFires ==
    /\ hm.chain = "sleep"
    /\ hm' = [hm EXCEPT !.chain = "call", !.chainAttempt = hm.chainAttempt + 1,
                        !.late = IF hm.stopped THEN hm.late + 1 ELSE hm.late]
    /\ UNCHANGED <<urlVars, dl, extVars, rlVars, retryVars>>

\* what getMediaInfo and download resolve to, as far as handleMessage looks
InfoResults == {Null, Metadata("audio", 0), Metadata("video", 1), Metadata("image", 0)}
DownloadResults ==
    { Failure(<<"e">>) }
    \cup { Success(paths, info) : paths \in SeqsUpTo(MediaPaths, MaxFiles) \ {<< >>},
                                 info \in InfoResults \ {Null} }

InitDispatch ==
    /\ LimiterIdle
    /\ RetryIdle
    /\ AppIdle

NextDispatch ==
    \/ \E userId \in Users, n \in 0..1, http \in BOOLEAN : MessageArrives(userId, n, http)
    \/ \E ok \in BOOLEAN : ChatActionSettles(ok)
    \/ \E mediaInfo \in InfoResults : InfoSettles(mediaInfo)
    \/ \E r \in DownloadResults : DownloadSettles(r)
    \/ \E n \in 1..MaxFiles : \E sizes \in [1..n -> FileSizes], ok \in BOOLEAN : ProbeSettles(sizes, ok)
    \/ \E made \in SUBSET (1..MaxFiles) : ItemsSettle(made)
    \/ \E ok \in BOOLEAN : ReplySettles(ok)
    \/ CleanupSettles
    \/ IntervalTick
    \/ KeepaliveResolves
    \/ \E e \in {ErrTimedOut, ErrBadRequest} : KeepaliveRejects(e)
    \/ KeepaliveTimerFires

vars == <<rlVars, retryVars, appVars, extVars>>

SpecRL == InitRL /\ [][NextRL]_vars

SpecRetry == InitRetry /\ [][NextRetry]_vars

SpecIso == InitIso /\ [][NextIso]_vars

SpecUrl == InitUrl /\ [][NextUrl]_vars

SpecDl == InitDl /\ [][NextDl]_vars

SpecDispatch == InitDispatch /\ [][NextDispatch]_vars

SpecCookie == InitCookie /\ [][NextCookie]_vars

SpecWrap == InitWrap /\ [][NextWrap]_vars

SpecConcurrent == InitConcurrent /\ [][NextConcurrent]_vars

SpecLockout == InitLockout /\ [][NextLockout]_vars

SpecRoute == InitRoute /\ [][NextRoute]_vars

SpecShare == InitShare /\ [][NextShare]_vars

\* ---------------------------------------------------- rate limiter claims
\* The call just made, when it is a canMakeRequest / any call on the limiter.
Checked == last.op = "canMakeRequest"
Called == last.op # "none"
Caller == last.userId
Found == Caller \in DOMAIN last.pre
Pre == last.pre[Caller]
Post == limits[Caller]
CooldownMs == env.COOLDOWN * 1000

\* C1: from a fresh entry, with every request calling canMakeRequest once and
\* recordRequest only after true, and all requests within 60 s of the first:
\* requests 1..RATE_LIMIT are allowed, request RATE_LIMIT+1 is rejected and sets
\* cooldownUntil to now + COOLDOWN s, and every request made less than COOLDOWN
\* seconds after request RATE_LIMIT+1 is rejected.
C1_BurstScenario ==
    Checked =>
        LET tr == track[Caller]
        IN  /\ tr.phase = "counting" => last.ret = TRUE
            /\ tr.phase = "breached" /\ tr.n = env.RATE_LIMIT + 1 =>
                   /\ last.ret = FALSE
                   /\ Post.cooldownUntil = now + CooldownMs
            /\ tr.phase = "breached" /\ tr.n = env.RATE_LIMIT + 2
                 /\ now < tr.breachAt + CooldownMs => last.ret = FALSE

\* a request made after request RATE_LIMIT+1, later but inside the cooldown
C1_Witness ==
    /\ Checked
    /\ track[Caller].phase = "breached"
    /\ track[Caller].n = env.RATE_LIMIT + 2
    /\ now > track[Caller].breachAt
    /\ now < track[Caller].breachAt + CooldownMs
    /\ last.ret = FALSE
    /\ env.RATE_LIMIT > 1

\* C2: once RATE_LIMIT requests of one window have been allowed, the next call
\* (the breaching one) and every later call of the window return false, and
\* every call made before the cooldownUntil that the breaching call left has
\* passed returns false, whether or not recordRequest is called again.
C2_LockedAfterBreach ==
    Checked =>
        LET tr == track[Caller]
        IN  /\ tr.ok => tr.a <= env.RATE_LIMIT
            /\ now < tr.lock => last.ret = FALSE

\* a call rejected inside the cooldown of a breach, after calls that no
\* recordRequest followed
C2_Witness ==
    /\ Checked
    /\ track[Caller].lock > now
    /\ track[Caller].poll
    /\ Found /\ Pre.cooldownUntil = track[Caller].lock
    /\ Post.lastReset # Pre.lastReset
    /\ last.ret = FALSE

\* what the call adds to count: recordRequest one, canMakeRequest nothing
Added == IF last.op = "recordRequest" THEN 1 ELSE 0
Elapsed == now - Pre.lastReset

\* C7 as stated: a call that finds an entry rotates it when at least 60 s have
\* elapsed since windowStart (count restarts from 0, windowStart = now) and
\* leaves count and windowStart alone when less has elapsed.
C7_RotatesAtSixtySeconds ==
    Called /\ Found =>
        IF Elapsed >= resetInterval
        THEN Post.lastReset = now /\ Post.count = Added
        ELSE Post.lastReset = Pre.lastReset /\ Post.count = Pre.count + Added

\* C7 amended: the window is rotated when MORE than 60 s have elapsed, before
\* anything else is done (the limit check sees the count reset to 0); with
\* 60 s or less elapsed count and windowStart are left to the rest of the call.
C7_RotatesAfterSixtySeconds ==
    Called /\ Found =>
        IF Elapsed > resetInterval
        THEN /\ Post.lastReset = now
             /\ Post.count = Added
             /\ Checked /\ Pre.cooldownUntil <= now => last.ret = TRUE
        ELSE Post.lastReset = Pre.lastReset /\ Post.count = Pre.count + Added

\* a window with requests recorded, rotated 1 ms after its 60 s
C7_Witness ==
    /\ Called /\ Found
    /\ Pre.count > 0
    /\ Elapsed = resetInterval + 1
    /\ Post.lastReset = now
    /\ Post.count = Added

\* C8: while cooldownUntil lies in the future canMakeRequest returns false,
\* whatever count is, and leaves cooldownUntil as it is.
C8_CooldownBlocks ==
    Checked /\ Found /\ Pre.cooldownUntil > now =>
        /\ last.ret = FALSE
        /\ Post.cooldownUntil = Pre.cooldownUntil

\* a check inside a cooldown whose window rotation has reset count to 0
C8_Witness ==
    /\ Checked /\ Found
    /\ Pre.cooldownUntil > now
    /\ Pre.count >= env.RATE_LIMIT
    /\ Post.count = 0
    /\ last.ret = FALSE

\* count as the rotation step leaves it, from the entry the call found
RotatedCount ==
    IF ~Found THEN 0 ELSE IF Elapsed > resetInterval THEN 0 ELSE Pre.count

\* C9: with no cooldown active, canMakeRequest sets cooldownUntil to
\* now + COOLDOWN s and returns false when count >= RATE_LIMIT, and returns
\* true, changing neither count nor cooldownUntil, when count < RATE_LIMIT.
C9_LimitCheck ==
    Checked /\ (Found => Pre.cooldownUntil <= now) =>
        IF RotatedCount >= env.RATE_LIMIT
        THEN /\ last.ret = FALSE
             /\ Post.cooldownUntil = now + CooldownMs
        ELSE /\ last.ret = TRUE
             /\ Post.count = RotatedCount
             /\ Post.cooldownUntil = (IF Found THEN Pre.cooldownUntil ELSE 0)

\* a check that finds exactly RATE_LIMIT recorded requests and arms the cooldown
C9_Witness ==
    /\ Checked /\ Found
    /\ Pre.cooldownUntil <= now
    /\ Pre.count = env.RATE_LIMIT
    /\ Post.cooldownUntil = now + CooldownMs
    /\ CooldownMs > 0
    /\ last.ret = FALSE

\* C10 as stated: a caller that, after a breach, polls canMakeRequest at every
\* instant never gets true again.
C10_PollingNeverAllowed ==
    Checked /\ track[Caller].poll => last.ret = FALSE

\* C10 amended: a poll re-arms the cooldown, from the current time, only when
\* it finds no cooldown active and count >= RATE_LIMIT in the current window;
\* a poll during an active cooldown leaves it alone; and a poll that finds the
\* cooldown passed and the window more than 60 s old returns true.
C10_RearmOnlyWhenExpired ==
    Checked /\ Found =>
        /\ Post.cooldownUntil # Pre.cooldownUntil =>
               /\ Pre.cooldownUntil <= now
               /\ Post.count >= env.RATE_LIMIT
               /\ Post.cooldownUntil = now + CooldownMs
        /\ Pre.cooldownUntil <= now /\ Post.count >= env.RATE_LIMIT =>
               Post.cooldownUntil = now + CooldownMs
        /\ Pre.cooldownUntil <= now /\ Elapsed > resetInterval => last.ret = TRUE

\* a caller polling at every instant since the breach is allowed again
C10_Witness ==
    /\ Checked /\ Found
    /\ track[Caller].poll
    /\ track[Caller].lock > 0
    /\ last.ret = TRUE

\* C11: recordRequest adds exactly one to the count of the caller's current
\* window (the count restarts from 0 when the call creates or rotates the
\* entry), whatever count and cooldown are: at and beyond the limit and inside
\* a cooldown it still counts, and it leaves cooldownUntil as it found it.
C11_RecordAlwaysCounts ==
    last.op = "recordRequest" =>
        /\ Post.count = RotatedCount + 1
        /\ Post.cooldownUntil = (IF Found THEN Pre.cooldownUntil ELSE 0)
        /\ Post.lastReset = (IF Found /\ Elapsed <= resetInterval
                               THEN Pre.lastReset ELSE now)

\* a request recorded beyond the limit, inside a cooldown
C11_Witness ==
    /\ last.op = "recordRequest" /\ Found
    /\ Pre.count >= env.RATE_LIMIT
    /\ Pre.cooldownUntil > now
    /\ Post.count = Pre.count + 1
    /\ Post.cooldownUntil = Pre.cooldownUntil

\* the entries of the identities other than the caller of the call just made
Others(lim, userId) == [u \in (DOMAIN lim) \ {userId} |-> lim[u]]

\* C12: a call for one identity leaves the entry of every other identity as
\* it was, and its result and the entry it leaves are those the same call
\* gives on a Map that holds the caller's entry alone.
C12_IdentityIsolation ==
    /\ [](Checked =>
            LET r == canMakeRequest(last.pre, Caller, now)
            IN  last.ret = r.ret /\ Post = r.limits[Caller])
    /\ [](last.op = "recordRequest" =>
            Post = recordRequest(last.pre, Caller, now)[Caller])
    /\ [][last'.op # "none" =>
            Others(limits', last'.userId) = Others(limits, last'.userId)]_vars

\* identity 2 is rejected over its limit while identity 1, with a request
\* recorded in the same Map, keeps its entry
C12_Witness ==
    /\ Checked /\ Caller = 2 /\ Found
    /\ last.ret = FALSE
    /\ Post.cooldownUntil = now + CooldownMs
    /\ 1 \in DOMAIN limits
    /\ limits[1].count > 0
    /\ limits[1].cooldownUntil = 0

\* ------------------------------------------------------ retry executor claims
Done == rpc \in {"returned", "thrown"}
RetryableFailure(o) == o.kind = "throw" /\ isRetryable(opts, o.error)
AllRetryable(seq) == \A i \in 1..Len(seq) : RetryableFailure(seq[i])
Front(seq) == SubSeq(seq, 1, Len(seq) - 1)

\* C3: when operation() fails k < maxAttempts times with retryable errors and
\* then succeeds, withRetry returns that value after exactly k+1 invocations
\* and k waits (none for k = 0); it never gives up after fewer than maxAttempts
\* failures that were all retryable.
C3_SucceedsAfterRetries ==
    /\ outcomes # << >> /\ outcomes[Len(outcomes)].kind = "return"
         /\ AllRetryable(Front(outcomes)) =>
            /\ rpc = "returned"
            /\ result = outcomes[Len(outcomes)]
            /\ invocations = Len(outcomes)
            /\ Len(waited) = Len(outcomes) - 1
    /\ rpc = "thrown" /\ AllRetryable(outcomes) => Len(outcomes) >= opts.maxAttempts

\* two retryable failures, then the value of the third invocation is returned
C3_Witness ==
    /\ rpc = "returned"
    /\ Len(outcomes) = 3
    /\ AllRetryable(Front(outcomes))
    /\ result = Returned("v2")
    /\ Len(waited) = 2

\* C4: when the first failure of operation() is not retryable, withRetry
\* throws that error at once, whatever maxAttempts is: one invocation, no wait.
C4_NonRetryableFailsFast ==
    outcomes # << >> /\ outcomes[1].kind = "throw"
      /\ ~isRetryable(opts, outcomes[1].error) =>
        /\ rpc = "thrown"
        /\ result = Thrown(outcomes[1].error)
        /\ invocations = 1
        /\ waited = << >>

\* a 413 error thrown at once although three more attempts were allowed
C4_Witness ==
    /\ rpc = "thrown"
    /\ outcomes = <<Thrown(ErrTooLarge)>>
    /\ opts.maxAttempts = MaxAttempts
    /\ invocations = 1

\* C5: operation() is never invoked more than maxAttempts times, withRetry
\* has a next step until it has settled, and when
\* every attempt fails with a retryable error withRetry ends after exactly
\* maxAttempts invocations by throwing the error of the last attempt.
C5_ExhaustionThrowsLastError ==
    /\ invocations <= opts.maxAttempts
    /\ Done \/ ENABLED NextRetry
    /\ Done /\ AllRetryable(outcomes) =>
           /\ rpc = "thrown"
           /\ invocations = opts.maxAttempts
           /\ Len(outcomes) = opts.maxAttempts
           /\ result = Thrown(outcomes[opts.maxAttempts].error)

\* every attempt failed, the last one with another error than the first
C5_Witness ==
    /\ rpc = "thrown"
    /\ AllRetryable(outcomes)
    /\ Len(outcomes) = opts.maxAttempts
    /\ opts.maxAttempts >= 3
    /\ outcomes[1].error # outcomes[Len(outcomes)].error
    /\ result.error = outcomes[Len(outcomes)].error

RECURSIVE Pow(_, _)
Pow(b, e) == IF e = 0 THEN 1 ELSE b * Pow(b, e - 1)

\* C6: the waits are initialDelay, then min(previous * backoffFactor,
\* maxDelay), that is min(initialDelay * backoffFactor^(i-1), maxDelay) for
\* wait i, each at most maxDelay; when every attempt failed with a retryable
\* error there were exactly maxAttempts - 1 of them.
C6_BackoffSchedule ==
    /\ \A i \in 1..Len(waited) :
           /\ waited[i] = IF i = 1 THEN opts.initialDelay
                          ELSE Min(waited[i - 1] * opts.backoffFactor, opts.maxDelay)
           /\ waited[i] = Min(opts.initialDelay * Pow(opts.backoffFactor, i - 1),
                              opts.maxDelay)
           /\ waited[i] <= opts.maxDelay
    /\ Done /\ AllRetryable(outcomes) => Len(waited) = opts.maxAttempts - 1

\* every attempt failed and the last wait was cut down to maxDelay
C6_Witness ==
    /\ rpc = "thrown"
    /\ AllRetryable(outcomes)
    /\ Len(waited) = opts.maxAttempts - 1
    /\ Len(waited) >= 2
    /\ waited[Len(waited)] = opts.maxDelay
    /\ waited[Len(waited) - 1] * opts.backoffFactor > opts.maxDelay

\* the six strings of the default policy, as the description lists them
NetworkErrorTexts ==
    { <<"N", "e", "t", "w", "o", "r", "k", " ", "r", "e", "q", "u", "e", "s", "t">>,
      <<"E", "T", "I", "M", "E", "D", "O", "U", "T">>,
      <<"E", "C", "O", "N", "N", "R", "E", "S", "E", "T">>,
      <<"E", "C", "O", "N", "N", "R", "E", "F", "U", "S", "E", "D">>,
      <<"s", "o", "c", "k", "e", "t", " ", "h", "a", "n", "g", " ", "u", "p">>,
      <<"g", "e", "t", "a", "d", "d", "r", "i", "n", "f", "o">> }

\* the message of an error is that of a transient network error
Transient(error) == \E t \in NetworkErrorTexts : Includes(ErrorMessage(error), t)

\* after the i-th failure withRetry went on to wait and invoke operation() again
Retried(i) == i < invocations \/ (i = Len(outcomes) /\ rpc = "sleep")

\* the message contains a string entry of the list or matches a pattern entry
\* (the pattern that excludes the messages containing its text)
Listed(list, errorMessage) ==
    \E j \in 1..Len(list) :
        IF list[j].kind = "string"
        THEN Includes(errorMessage, list[j].text)
        ELSE ~Includes(errorMessage, list[j].text)

\* C16: at the media-send step a failure that is not a transient network
\* error (a 413 in particular) is thrown at once: the send operation is
\* invoked exactly once and no retry is made.
C16_PermanentSendFailureNotRetried ==
    options = SendOptions /\ outcomes # << >> /\ outcomes[1].kind = "throw"
      /\ ~Transient(outcomes[1].error) =>
        /\ rpc = "thrown"
        /\ invocations = 1
        /\ result = Thrown(outcomes[1].error)

\* C17: a failure with attempts left is retried if and only if its message
\* contains a string entry of retryableErrors or matches a pattern entry; when
\* the caller passes no retryableErrors that is exactly when it contains one
\* of the six default strings, and when it passes no backoffFactor each wait
\* is twice the one before, up to maxDelay.
C17_RetryableIffListed ==
    /\ \A i \in 1..Len(outcomes) :
           outcomes[i].kind = "throw" /\ i < opts.maxAttempts =>
             /\ Retried(i) <=> Listed(opts.retryableErrors, ErrorMessage(outcomes[i].error))
             /\ "retryableErrors" \notin DOMAIN options =>
                    (Retried(i) <=> Transient(outcomes[i].error))
    /\ "backoffFactor" \notin DOMAIN options =>
           \A i \in 2..Len(waited) : waited[i] = Min(2 * waited[i - 1], opts.maxDelay)

\* a call site that passes attempt count and delays only: 'socket hang up'
\* is retried, the second wait is twice the first, and an error with none of
\* the six strings is thrown on the third attempt although more were allowed
C17_Witness ==
    /\ DOMAIN options = {"maxAttempts", "initialDelay", "maxDelay"}
    /\ opts.maxAttempts > 3
    /\ outcomes = <<Thrown(ErrHangUp), Thrown(ErrThrownString), Thrown(ErrBadRequest)>>
    /\ rpc = "thrown"
    /\ Len(waited) = 2
    /\ waited[2] = 2 * waited[1]

\* ------------------------------------------------------- URL filter claims
\* the hostname of the word just filtered and the configured domains
FilteredHost == ParseURL(filtered.word).hostname
Configured == { supported[i] : i \in 1..Len(supported) }

\* hostname ends with a dot followed by domain
SubdomainOf(hostname, domain) ==
    /\ Len(hostname) > Len(domain)
    /\ hostname[Len(hostname) - Len(domain)] = "."
    /\ \A i \in 1..Len(domain) : hostname[Len(hostname) - Len(domain) + i] = domain[i]

\* C20: a URL is accepted if and only if its hostname is a configured domain
\* or ends with "." and a configured domain; www.youtube.com is accepted for
\* youtube.com, evilyoutube.com is not, and a hostname that ends in the
\* characters x.com without a dot in front of them is not accepted for x.com.
\* A word that is not a URL is not accepted.
C20_DomainMatching ==
    /\ filtered.valid =>
         /\ filtered.supported <=>
                \E d \in Configured : FilteredHost = d \/ SubdomainOf(FilteredHost, d)
         /\ FilteredHost = <<"w", "w", "w", ".", "y", "o", "u", "t", "u", "b", "e", ".", "c", "o", "m">> => filtered.supported
         /\ FilteredHost = <<"e", "v", "i", "l", "y", "o", "u", "t", "u", "b", "e", ".", "c", "o", "m">> => ~filtered.supported
         /\ Len(FilteredHost) > 5 /\ EndsWith(FilteredHost, <<"x", ".", "c", "o", "m">>)
              /\ FilteredHost[Len(FilteredHost) - 5] # "." => ~filtered.supported
    /\ ~filtered.valid => ~filtered.supported

\* with x.com configured, hehx.com (and x.com in its path) is not accepted
C20_Witness ==
    /\ <<"x", ".", "c", "o", "m">> \in Configured
    /\ filtered.word = Https \o <<"h", "e", "h", "x", ".", "c", "o", "m">> \o <<"/", "x", ".", "c", "o", "m">>
    /\ filtered.valid
    /\ ~filtered.supported

\* ------------------------------------------------------- downloader claims
\* C18: getMediaInfo never throws; it resolves to null whenever the external
\* tool, the internal retries or the parsing of the output failed, and to
\* metadata only when every step succeeded.
C18_NullOnEveryFailure ==
    dl.call = "getMediaInfo" /\ dl.pc = "done" =>
        /\ dl.result.kind \in {"null", "metadata"}
        /\ dl.failed # {} => dl.result = Null
        /\ dl.result.kind = "metadata" => dl.failed = {}

\* C19: download settles with a DownloadResult, never with an exception, also
\* when a tool fails: success = true comes with at least one file path, none
\* of them empty, and with the metadata; success = false comes with an error
\* message and no file path.
C19_StructuredResult ==
    dl.call = "download" /\ dl.pc = "done" =>
        /\ dl.result.kind = "result"
        /\ dl.result.success =>
               /\ Len(dl.result.filePaths) >= 1
               /\ \A i \in 1..Len(dl.result.filePaths) : dl.result.filePaths[i] # << >>
               /\ dl.result.mediaInfo.kind = "metadata"
        /\ ~dl.result.success =>
               /\ dl.result.error # << >>
               /\ dl.result.filePaths = << >>

\* the files were written but the metadata could not be read afterwards: a
\* failure result without file paths
C19_Witness ==
    /\ dl.call = "download" /\ dl.pc = "done"
    /\ dl.filePaths # << >>
    /\ dl.failed # {}
    /\ dl.result.success = FALSE
    /\ dl.result.filePaths = << >>

\* C13: acquisition of metadata and of the media starts only after
\* canMakeRequest was called for the sender of the message (the call creates
\* the sender's entry in the limiter)
C13_RateLimitBeforeAcquisition ==
    hm.acquired # {} => hm.from \in DOMAIN limits

C15_KeepaliveCancelled ==
    hm.pc = "done" => (hm.timers = 0 /\ ~hm.interval)

\* handleMessage armed the interval twice, the interval fired, and the
\* handler finished through a catch block
C15_Witness ==
    /\ hm.pc = "done"
    /\ hm.armed = 2
    /\ hm.ticks > 0
    /\ \E i \in 1..Len(hm.replies) : hm.replies[i] = "catch-inner"
    /\ hm.timers = 0

\* C21: when ffprobe reported a size over MAX_FILE_SIZE for a file of the
\* request, no file of the request is handed to a media reply
C21_NoOversizedSent ==
    (\E i \in 1..Len(hm.sizes) : hm.sizes[i] > MAX_FILE_SIZE) => hm.sent = << >>

\* a request of two files, the second one over the limit, has finished
C21_Witness ==
    /\ hm.pc = "done"
    /\ Len(hm.sizes) = 2
    /\ hm.sizes[1] = MAX_FILE_SIZE
    /\ hm.sizes[2] > MAX_FILE_SIZE
    /\ hm.error = "size"
    /\ hm.sent = << >>

\* the category a reply text describes: the size limit, the rate limit, or
\* a failure in general
Describes(text) ==
    IF Includes(text, <<"s", "i", "z", "e">>) \/ Includes(text, <<"e", "x", "c", "e", "e", "d", "s">>) THEN "size limit"
    ELSE IF Includes(text, <<"r", "a", "t", "e", " ", "l", "i", "m", "i", "t">>) \/ Includes(text, <<"T", "o", "o", " ", "m", "a", "n", "y", " ", "r", "e", "q", "u", "e", "s", "t", "s">>) THEN "rate limit"
    ELSE "generic failure"

\* C22: every failure reply describes the category of the failure: the size
\* limit when a file was over MAX_FILE_SIZE, a generic failure otherwise
C22_ReplyDescribesCategory ==
    \A i \in 1..Len(hm.replies) :
        hm.replies[i] # "send" =>
            Describes(ReplyText(hm.replies[i]))
                = (IF hm.error = "size" THEN "size limit" ELSE "generic failure")

\* C23: when handleMessage has finished after a successful download, every
\* downloaded file and every thumbnail written was given to cleanup
C23_TempFilesCleaned ==
    (hm.pc = "done" /\ hm.files # << >>) =>
        ({ hm.files[i] : i \in 1..Len(hm.files) } \cup hm.thumbs) \subseteq hm.deleted

\* ------------------------------------------------- cookie selection claims
\* the domains a site-specific variable is for: the aliases of youtube and
\* twitter, else the site name with or without '.com'
SiteDomains(site) ==
    CASE site = <<"y", "o", "u", "t", "u", "b", "e">> -> {<<"y", "o", "u", "t", "u", "b", "e", ".", "c", "o", "m">>, <<"y", "o", "u", "t", "u", ".", "b", "e">>}
      [] site \in {<<"t", "w", "i", "t", "t", "e", "r">>, <<"x">>} -> {<<"t", "w", "i", "t", "t", "e", "r", ".", "c", "o", "m">>, <<"x", ".", "c", "o", "m">>}
      [] OTHER -> {site \o <<".", "c", "o", "m">>, site}

\* the site-specific files that apply to a domain: the domain is a domain of
\* the site or a subdomain of one
ApplicableFiles(processEnv, domain) ==
    LET vs == cookieEnvVars(processEnv)
    IN  { vs[i].path : i \in { j \in 1..Len(vs) :
                                 /\ vs[j].path # ""
                                 /\ \E d \in SiteDomains(vs[j].site) :
                                        domain = d \/ EndsWith(domain, <<".">> \o d) } }

\* C24: getCookieFileForDomain returns a site-specific file that applies to
\* the domain (equal, subdomain, alias) and the default COOKIES_FILE when no
\* site-specific file applies
C24_CookieSelection ==
    cookie.called =>
        IF ApplicableFiles(cookie.env, cookie.domain) # {}
        THEN /\ cookie.file # Null
             /\ cookie.file.path \in ApplicableFiles(cookie.env, cookie.domain)
        ELSE cookie.file = OrNull(cookie.fallback)

\* ------------------------------------------------ dispatch wrapper claims
\* C25: the wrappers around getMediaInfo and download never come to a second
\* attempt: withRetry neither waits nor throws, the downloader is invoked
\* once, and what it resolved to is returned after that attempt
C25_WrappersNeverRetry ==
    /\ rpc \notin {"sleep", "thrown"}
    /\ invocations <= 1
    /\ waited = << >>
    /\ rpc = "returned" =>
          /\ invocations = 1
          /\ result = Returned(ResultTag(dl.result))

\* download failed inside (a command was rejected) under the options of the
\* call site, three attempts allowed, and withRetry has returned the failure
C25_Witness ==
    /\ rpc = "returned"
    /\ options = DownloadOptions
    /\ dl.call = "download"
    /\ result.value = "failure"
    /\ invocations = 1

\* C26: no sendChatAction call is made for a ChatActionManager after its
\* stop() has returned and before start is called again
C26_NoActionAfterStop ==
    hm.late = 0

\* -------------------------------------------- concurrent rate limiter claims
\* C27: the count of an identity never exceeds RATE_LIMIT, whatever the
\* interleaving of its requests in flight
C27_CountWithinLimit ==
    \A u \in DOMAIN limits : limits[u].count <= env.RATE_LIMIT

\* the call just made is a canMakeRequest made after a breach, with no true
\* returned since, more than 60 s plus the cooldown after the start of the
\* window of the breach
PastLockout ==
    /\ Checked
    /\ lockout.was.active
    /\ now > lockout.was.windowStart + resetInterval + CooldownMs

\* C28 as stated: such a call returns true, whatever was called in between
C28_AllowedAfterWindowAndCooldown ==
    PastLockout => last.ret = TRUE

\* C28 amended: such a call returns true when recordRequest was not called
\* since the breach, however many canMakeRequest calls were made in between
C28_AllowedUnlessRecorded ==
    PastLockout /\ ~lockout.was.recorded => last.ret = TRUE

\* a breach with a cooldown, two or more rejected polls after it, and then
\* the call past the window and the cooldown, which is allowed
C28_Witness ==
    /\ PastLockout
    /\ ~lockout.was.recorded
    /\ lockout.was.polls >= 2
    /\ CooldownMs > 0
    /\ last.ret = TRUE

\* ------------------------------------------------- extractor choice claims
\* the hostname is one of the image sites or a subdomain of one, after a
\* leading "www." is removed
OnImageSite(hostname) ==
    \E site \in ImageSites : isDomainMatch(StripWww(hostname), site)

\* C29: a supported URL goes to gallery-dl only when its hostname, without a
\* leading "www.", is an image site or a true subdomain of one; a hostname
\* that only ends in the same characters goes to yt-dlp
C29_ImageRouteByDomain ==
    route.called =>
        /\ route.tool = "gallery-dl" => OnImageSite(route.hostname)
        /\ ~OnImageSite(route.hostname) => route.tool = "yt-dlp"

\* ----------------------------------------------- temporary directory claims
\* C30: requests in flight at the same time never share a temporary file: no
\* request sends or deletes a path another request in flight downloaded,
\* also when two messages carry the same URL
C30_NoSharedTempFile ==
    \A r \in 1..NumRequests : ~share.req[r].shared

====
